---------------------------- MODULE Spec2Model ----------------------------
(***************************************************************************)
(* A model of the steamprops computational core (IAPWS IF-97):             *)
(*   - the region classifier RegionFromTP and the TP/HS dispatcher,        *)
(*   - the region calculators' envelope checks and property assembly,      *)
(*   - the one-shot coefficient table loaders.                             *)
(*                                                                         *)
(* float64 is modelled as a decimal floating-point number m * 10^e with a  *)
(* six-digit significand, round-to-nearest, NaN and +/-Inf.  Six digits    *)
(* represent every threshold of the source exactly (647.096, 611.657,      *)
(* 16.5292e6, ...); results of arithmetic are rounded as float64 rounds    *)
(* them, only coarser.  Signed zero and exponent overflow are not          *)
(* modelled.                                                               *)
(***************************************************************************)
EXTENDS Integers, Sequences, FiniteSets, TLC

(***************************************************************************)
(* float64                                                                 *)
(***************************************************************************)
MantLo == 10 * 10 * 10 * 10 * 10
MantHi == 10 * MantLo
Chunk == 10 * 10 * 10

NaN == [k |-> "nan", m |-> 0, e |-> 0]
Inf(s) == [k |-> "inf", m |-> s, e |-> 0]
Num(m, e) == [k |-> "num", m |-> m, e |-> e]
Zero == Num(0, 0)

\* the value of an expression, evaluated once: S is the singleton holding it
Once(S) == CHOOSE r \in S : TRUE

IAbs(n) == IF n < 0 THEN -n ELSE n
ISgn(n) == IF n < 0 THEN -1 ELSE IF n > 0 THEN 1 ELSE 0

RECURSIVE Pow10(_)
Pow10(n) == IF n <= 0 THEN 1 ELSE 10 * Pow10(n - 1)

\* n / d rounded to nearest, half away from zero (d > 0)
RoundDiv(n, d) == ISgn(n) * ((IAbs(n) + d \div 2) \div d)

\* the float nearest to m * 10^e
RECURSIVE NormV(_, _)
NormV(m, e) ==
  IF m = 0 THEN Zero
  ELSE IF IAbs(m) >= MantHi THEN NormV(RoundDiv(m, 10), e + 1)
  ELSE IF IAbs(m) < MantLo THEN NormV(m * 10, e - 1)
  ELSE Num(m, e)

Norm(m, e) == Once({NormV(mv, ev) : mv \in {m}, ev \in {e}})

\* the decimal literal n * 10^e of the source
D(n, e) == Norm(n, e)

IsNaN(a) == a.k = "nan"
IsInf(a) == a.k = "inf"
IsNum(a) == a.k = "num"
IsZero(a) == a.k = "num" /\ a.m = 0
Sgn(a) == ISgn(a.m)

FNegV(a) == IF IsNaN(a) THEN NaN ELSE [a EXCEPT !.m = -a.m]

\* -a
FNeg(a) == Once({FNegV(av) : av \in {a}})

FAbsV(a) == IF IsNaN(a) THEN NaN ELSE [a EXCEPT !.m = IAbs(a.m)]

\* math.Abs
FAbs(a) == Once({FAbsV(av) : av \in {a}})

\* a + b of two non-zero numbers, a.e >= b.e
AddAligned(a, b) ==
  LET shift == a.e - b.e
  IN IF shift > 8 THEN a
     ELSE Norm(a.m * 100 + RoundDiv(b.m * 100, Pow10(shift)), a.e - 2)

FAddV(a, b) ==
  IF IsNaN(a) \/ IsNaN(b) THEN NaN
  ELSE IF IsInf(a) /\ IsInf(b) THEN (IF a.m = b.m THEN a ELSE NaN)
  ELSE IF IsInf(a) THEN a
  ELSE IF IsInf(b) THEN b
  ELSE IF a.m = 0 THEN b
  ELSE IF b.m = 0 THEN a
  ELSE IF a.e >= b.e THEN AddAligned(a, b) ELSE AddAligned(b, a)

\* a + b
FAdd(a, b) == Once({FAddV(av, bv) : av \in {a}, bv \in {b}})

\* a - b
FSub(a, b) == FAdd(a, FNeg(b))

\* |a.m| * |b.m| of two six-digit significands, computed in three-digit halves
MulMant(x, y) ==
  LET x1 == x \div Chunk
      x0 == x % Chunk
      y1 == y \div Chunk
      y0 == y % Chunk
      t  == (x1 * y0 + x0 * y1) * Chunk + x0 * y0
  IN  \* the product divided by 10^3, truncated
      (x1 * y1 + t \div (Chunk * Chunk)) * Chunk + (t % (Chunk * Chunk)) \div Chunk

FMulV(a, b) ==
  IF IsNaN(a) \/ IsNaN(b) THEN NaN
  ELSE IF IsInf(a) \/ IsInf(b)
       THEN (IF IsZero(a) \/ IsZero(b) THEN NaN ELSE Inf(Sgn(a) * Sgn(b)))
  ELSE IF a.m = 0 \/ b.m = 0 THEN Zero
  ELSE Norm(Sgn(a) * Sgn(b) * MulMant(IAbs(a.m), IAbs(b.m)), a.e + b.e + 3)

\* a * b
FMul(a, b) == Once({FMulV(av, bv) : av \in {a}, bv \in {b}})

\* x / y of two six-digit significands, scaled by 10^7, truncated
DivMant(x, y) ==
  LET q0 == x \div y
      r0 == x % y
      d1 == (r0 * Chunk) \div y
      r1 == (r0 * Chunk) % y
      d2 == (r1 * Chunk) \div y
      r2 == (r1 * Chunk) % y
      d3 == (r2 * 10) \div y
  IN  ((q0 * Chunk + d1) * Chunk + d2) * 10 + d3

FDivV(a, b) ==
  IF IsNaN(a) \/ IsNaN(b) THEN NaN
  ELSE IF IsInf(a) THEN (IF IsInf(b) THEN NaN
                         ELSE Inf(a.m * (IF Sgn(b) < 0 THEN -1 ELSE 1)))
  ELSE IF IsInf(b) THEN Zero
  ELSE IF b.m = 0 THEN (IF a.m = 0 THEN NaN ELSE Inf(Sgn(a)))
  ELSE IF a.m = 0 THEN Zero
  ELSE Norm(Sgn(a) * Sgn(b) * DivMant(IAbs(a.m), IAbs(b.m)), a.e - b.e - 7)

\* a / b
FDiv(a, b) == Once({FDivV(av, bv) : av \in {a}, bv \in {b}})

\* comparisons of float64: every comparison with NaN is false
FEqV(a, b) == ~IsNaN(a) /\ ~IsNaN(b) /\ a = b

FEq(a, b) == Once({FEqV(av, bv) : av \in {a}, bv \in {b}})

FLtV(a, b) == ~IsNaN(a) /\ ~IsNaN(b) /\ a # b /\ Sgn(FSub(a, b)) < 0

FLt(a, b) == Once({FLtV(av, bv) : av \in {a}, bv \in {b}})

FLeV(a, b) == FLtV(a, b) \/ FEqV(a, b)

FLe(a, b) == Once({FLeV(av, bv) : av \in {a}, bv \in {b}})

FGt(a, b) == FLt(b, a)
FGe(a, b) == FLe(b, a)

RECURSIVE ISqrtIn(_, _, _)
ISqrtIn(n, lo, hi) ==
  IF lo >= hi THEN lo
  ELSE LET mid == (lo + hi + 1) \div 2
       IN IF mid * mid <= n THEN ISqrtIn(n, mid, hi) ELSE ISqrtIn(n, lo, mid - 1)

\* floor of the square root of n, 0 <= n < 10^9
ISqrt(n) == ISqrtIn(n, 0, 31622)

\* one Newton step for the square root of a from y
Newton(a, y) == FMul(D(5, -1), FAdd(y, FDiv(a, y)))

FSqrtV(a) ==
  IF IsNaN(a) THEN NaN
  ELSE IF Sgn(a) < 0 THEN NaN
  ELSE IF IsInf(a) THEN a
  ELSE IF a.m = 0 THEN Zero
  ELSE LET odd == a.e % 2 = 1
           mm  == IF odd THEN a.m * 10 ELSE a.m
           ee  == IF odd THEN a.e - 1 ELSE a.e
       IN  Newton(a, Newton(a, Norm(ISqrt(mm * 100), (ee - 2) \div 2)))

\* math.Sqrt
FSqrt(a) == Once({FSqrtV(av) : av \in {a}})

\* math.IsNaN(x) || math.IsInf(x, 0)
NonFinite(a) == Once({IsNaN(av) \/ IsInf(av) : av \in {a}})

(***************************************************************************)
(* State.                                                                  *)
(*   files : the embedded coefficient resources, each "good" or "bad"      *)
(*           (a malformed file makes its loader return an error)           *)
(*   pc    : the caller, "idle" or "done" (a call has returned)            *)
(*   call  : the last call and its arguments                               *)
(*   ret   : what the last call returned                                   *)
(***************************************************************************)
VARIABLES files, pc, call, ret

(***************************************************************************)
(* State of the table loaders, for the concurrent first callers.           *)
(*   rows, rowsLoadedOnce : region1's table and its flag                   *)
(*   n, loaded            : the B23 table and its flag                     *)
(*   lpc, li              : each goroutine's position and scanner index    *)
(*   got                  : what each goroutine's last call read           *)
(* Under Spec the calls come one after another: a loader then either has   *)
(* the file's rows in its table or returns the file's error on every call, *)
(* which LoadOK reads off files; the flags and tables move under SpecLoad. *)
(***************************************************************************)
VARIABLES rows, rowsLoadedOnce, n, loaded, lpc, li, got

(***************************************************************************)
(* State of the result cache (package cache).                              *)
(*   entries, maxSize : Cache.entries (hash -> entry) and Cache.maxSize    *)
(*   now              : the clock time.Now reads                           *)
(*   written          : for each CacheKey, the value last Set under it     *)
(*   distinct         : no CacheKey has been Set twice                     *)
(*   hashes           : hashKey(k) for the keys k of the model, computed   *)
(*                      when the cache is made                             *)
(***************************************************************************)
VARIABLES entries, maxSize, now, written, distinct, hashes

(***************************************************************************)
(* State of concurrent callers of one Cache.                               *)
(*   mu    : Cache.mutex, a sync.RWMutex: the goroutine holding it for     *)
(*           writing (0: none), the read locks each goroutine holds, and   *)
(*           the goroutines blocked in Lock                                *)
(*   gpc   : each goroutine's position in Get or SetWithTTL                *)
(*   local : each goroutine's method, key argument and the entry its Get   *)
(*           read from the map                                             *)
(***************************************************************************)
VARIABLES mu, gpc, local

(***************************************************************************)
(* State of the CacheManager.                                              *)
(*   cleanupRunning, cleanupMutex : the fields; cleanupMutex is its holder *)
(*                                  (0: unlocked)                          *)
(*   mpc      : each caller's position in StartCleanup or StopCleanup      *)
(*   loops    : the position of every cleanupLoop goroutine started so far *)
(*   tentries : the entries of the transport cache (entries holds those of *)
(*              the properties cache)                                      *)
(***************************************************************************)
VARIABLES cleanupRunning, cleanupMutex, mpc, loops, tentries

callVars == <<files, pc, call, ret>>
loadVars == <<rows, rowsLoadedOnce, n, loaded, lpc, li, got>>
seqVars == <<entries, maxSize, now, written, distinct, hashes>>
concVars == <<mu, gpc, local>>
mgrVars == <<cleanupRunning, cleanupMutex, mpc, loops, tentries>>
cacheVars == <<seqVars, concVars, mgrVars>>
vars == <<files, pc, call, ret, rows, rowsLoadedOnce, n, loaded, lpc, li, got,
          cacheVars>>

Tables == {"region1", "region2_0", "region2_r", "region3", "region3_ph",
           "region3_ps", "region3_hs", "h3ab", "region4", "region5_0",
           "region5_r", "b23"}

\* calc_core.Region
RegionAuto == 0
Region1 == 1
Region2 == 2
Region3 == 3
Region4 == 4
Region5 == 5

Ok(v) == [ok |-> TRUE, v |-> v]
Err == [ok |-> FALSE, v |-> Zero]

\* a loader's return value: nil, or the error of a malformed resource
LoadOK(t) == files[t] = "good"

(***************************************************************************)
(* Region 4: saturation pressure.  The ten coefficients live in            *)
(* iapws-if97-region4.csv; the values of p_sat at the temperatures of the  *)
(* model are tabulated (IF-97, as the tests of region4 pin them:           *)
(* T_sat(101325 Pa) = 373.15 K within 0.1 K).                              *)
(***************************************************************************)
PsatTable(T) ==
  CASE T = D(17315, -2) -> D(111311, -7)
    [] T = D(27316, -2) -> D(611657, -3)
    [] T = D(29315, -2) -> D(233921, -2)
    [] T = D(37315, -2) -> D(101418, 0)
    [] T = D(63315, -2) -> D(186664, 2)
    [] T = D(647096, -3) -> D(22064, 3)
    [] T = D(700, 0) -> D(446709, 2)
    [] IsNaN(T) -> NaN

SaturationPressure(T) ==
  IF ~LoadOK("region4") THEN Err
  ELSE IF FLe(T, Zero) THEN Err
  ELSE Ok(PsatTable(T))

\* the values of T_sat at the pressures of the model (the inverse equation
\* of IF-97 over the same coefficients; both of its discriminants are
\* non-negative at these pressures)
TsatTable(p) ==
  CASE p = D(100, 0) -> D(25055, -2)
    [] p = D(611657, -3) -> D(27316, -2)
    [] p = D(101325, 0) -> D(373124, -3)
    [] p = D(22064, 3) -> D(647096, -3)
    [] p = D(25, 6) -> D(650144, -3)
    [] IsNaN(p) -> NaN

\* SaturationTemperature without the test of the sign of p
SaturationTemperature_NoSignCheck(p) ==
  IF ~LoadOK("region4") THEN Err
  ELSE IF FLe(p, Zero) THEN Ok(NaN)
  ELSE Ok(TsatTable(p))

SaturationTemperature(p) ==
  IF ~LoadOK("region4") THEN Err
  ELSE IF FLe(p, Zero) THEN Err
  ELSE Ok(TsatTable(p))

(***************************************************************************)
(* The two saturation equations evaluated over the ten coefficients of     *)
(* iapws-if97-region4.csv (IF-97, Table 34), in the arithmetic of the      *)
(* model.                                                                  *)
(***************************************************************************)
Region4n ==
  <<D(116705, -2), D(-724213, 0), D(-170738, -4), D(120208, -1),
    D(-323256, 1), D(149151, -4), D(-482327, -2), D(405113, 0),
    D(-238556, -6), D(650175, -3)>>

\* c2*x^2 + c1*x + c0
Quad(c2, c1, c0, x) == FAdd(FAdd(FMul(FMul(c2, x), x), FMul(c1, x)), c0)

\* b^2 - 4*a*c
Disc(a, b, c) == FSub(FMul(b, b), FMul(FMul(D(4, 0), a), c))

PsatOfABC(A, B, C, disc) ==
  IF FLt(disc, Zero) THEN Err
  ELSE Once({Ok(FMul(D(1, 6), FMul(FMul(x, x), FMul(x, x)))) :
               x \in {FDiv(FMul(D(2, 0), C), FAdd(FNeg(B), FSqrt(disc)))}})

PsatOfTheta(theta) ==
  Once({PsatOfABC(A, B, C, Disc(A, B, C)) :
          A \in {Quad(D(1, 0), Region4n[1], Region4n[2], theta)},
          B \in {Quad(Region4n[3], Region4n[4], Region4n[5], theta)},
          C \in {Quad(Region4n[6], Region4n[7], Region4n[8], theta)}})

\* SaturationPressure(T), the equation computed
PsatEq(T) ==
  IF ~LoadOK("region4") THEN Err
  ELSE IF FLe(T, Zero) THEN Err
  ELSE Once({PsatOfTheta(theta) :
               theta \in {FAdd(T, FDiv(Region4n[9], FSub(T, Region4n[10])))}})

\* the last step of SaturationTemperature with the other root of its final
\* quadratic: T = 0.5*(y + sqrt(inner))
TsatOfD_PlusRoot(Dq) ==
  Once({IF FLt(inner, Zero) THEN Err
        ELSE Ok(FMul(D(5, -1), FAdd(y, FSqrt(inner)))) :
          y \in {FAdd(Region4n[10], Dq)},
          inner \in {FSub(FMul(FAdd(Region4n[10], Dq), FAdd(Region4n[10], Dq)),
                          FMul(D(4, 0), FAdd(Region4n[9],
                                             FMul(Region4n[10], Dq))))}})

\* y = n10 + D, inner = y^2 - 4*(n9 + n10*D), T = 0.5*(y - sqrt(inner))
TsatOfD(Dq) ==
  Once({IF FLt(inner, Zero) THEN Err
        ELSE Ok(FMul(D(5, -1), FSub(y, FSqrt(inner)))) :
          y \in {FAdd(Region4n[10], Dq)},
          inner \in {FSub(FMul(FAdd(Region4n[10], Dq), FAdd(Region4n[10], Dq)),
                          FMul(D(4, 0), FAdd(Region4n[9],
                                             FMul(Region4n[10], Dq))))}})

TsatOfEFG(E, F, G, disc) ==
  IF FLt(disc, Zero) THEN Err
  ELSE TsatOfD(FDiv(FMul(D(2, 0), G), FSub(FNeg(F), FSqrt(disc))))

TsatOfBeta(beta) ==
  Once({TsatOfEFG(E, F, G, Disc(E, F, G)) :
          E \in {Quad(D(1, 0), Region4n[3], Region4n[6], beta)},
          F \in {Quad(Region4n[1], Region4n[4], Region4n[7], beta)},
          G \in {Quad(Region4n[2], Region4n[5], Region4n[8], beta)}})

\* SaturationTemperature(p), the equation computed; beta = (p/1e6)^(1/4)
TsatEq(p) ==
  IF ~LoadOK("region4") THEN Err
  ELSE IF FLe(p, Zero) THEN Err
  ELSE Once({TsatOfBeta(beta) : beta \in {FSqrt(FSqrt(FDiv(p, D(1, 6))))}})

(***************************************************************************)
(* B23 boundary: T = n1 + n2*p + n3*p^2, the coefficients of               *)
(* iapws-if97-region2_3.csv (IF-97 B23 coefficients).                      *)
(***************************************************************************)
B23n1 == D(348052, -3)
B23n2 == D(-116719, -5)
B23n3 == D(101930, -8)

B23T(pMPa) ==
  IF ~LoadOK("b23") THEN Err
  ELSE Ok(FAdd(FAdd(B23n1, FMul(B23n2, pMPa)), FMul(FMul(B23n3, pMPa), pMPa)))

\* the table n after loadOnce: the embedded file, a file cut after its
\* second row (n[3] stays 0), a file of the header line alone (all 0)
B23Table == <<B23n1, B23n2, B23n3>>
B23Tables == {B23Table, <<B23n1, B23n2, Zero>>, <<Zero, Zero, Zero>>}

\* the two roots (-B +- sqrt(d)) / (2A) of B23P
B23Roots(A, B, d) ==
  [p1 |-> FDiv(FAdd(FNeg(B), FSqrt(d)), FMul(D(2, 0), A)),
   p2 |-> FDiv(FSub(FNeg(B), FSqrt(d)), FMul(D(2, 0), A))]

\* B23P that always keeps the root of the + sign
B23PWith_PlusRoot(nn, TK) ==
  IF ~LoadOK("b23") THEN Err
  ELSE LET A == nn[3]
           B == nn[2]
           C == Once({FSub(nn[1], TK)})
           d == Once({FSub(FMul(B, B), FMul(FMul(D(4, 0), A), C))})
       IN IF FLt(FAbs(A), D(1, -18))
          THEN (IF FLt(FAbs(B), D(1, -18)) THEN Err
                ELSE Ok(FDiv(FNeg(C), B)))
          ELSE IF FLt(d, Zero) THEN Err
          ELSE Ok(B23Roots(A, B, d).p1)

\* B23P(TK) over the loaded table nn
B23PWith(nn, TK) ==
  IF ~LoadOK("b23") THEN Err
  ELSE LET A == nn[3]
           B == nn[2]
           C == Once({FSub(nn[1], TK)})
           d == Once({FSub(FMul(B, B), FMul(FMul(D(4, 0), A), C))})
       IN IF FLt(FAbs(A), D(1, -18))
          THEN (IF FLt(FAbs(B), D(1, -18)) THEN Err
                ELSE Ok(FDiv(FNeg(C), B)))
          ELSE IF FLt(d, Zero) THEN Err
          ELSE LET r == Once({B23Roots(A, B, d)})
               IN IF FLt(r.p1, Zero) \/ (FGt(r.p2, Zero) /\ FLt(r.p2, r.p1))
                  THEN Ok(r.p2)
                  ELSE Ok(r.p1)

B23P(TK) == B23PWith(B23Table, TK)

(***************************************************************************)
(* Region classifier                                                       *)
(***************************************************************************)
\* RegionFromTP without the pressure fallback: a failed B23 evaluation
\* leaves the region undetermined
RegionFromTP_NoFallback(T, p) ==
  IF FGt(T, D(107315, -2)) THEN Region5
  ELSE LET sat == IF FLt(T, D(647096, -3)) THEN SaturationPressure(T) ELSE Err
       IN IF FLt(T, D(647096, -3)) /\ sat.ok
          THEN (IF FGe(p, sat.v) THEN Region1 ELSE Region2)
          ELSE LET T23 == B23T(FDiv(p, D(1, 6)))
               IN IF T23.ok
                  THEN (IF FGe(T, T23.v) THEN Region2 ELSE Region3)
                  ELSE RegionAuto

\* RegionFromTP with the two sides of the B23 boundary exchanged
RegionFromTP_B23Swapped(T, p) ==
  IF FGt(T, D(107315, -2)) THEN Region5
  ELSE LET sat == IF FLt(T, D(647096, -3)) THEN SaturationPressure(T) ELSE Err
       IN IF FLt(T, D(647096, -3)) /\ sat.ok
          THEN (IF FGe(p, sat.v) THEN Region1 ELSE Region2)
          ELSE LET T23 == B23T(FDiv(p, D(1, 6)))
               IN IF T23.ok
                  THEN (IF FGe(T, T23.v) THEN Region3 ELSE Region2)
                  ELSE IF FGe(p, D(165292, 2)) THEN Region3 ELSE Region2

RegionFromTP(T, p) ==
  IF FGt(T, D(107315, -2)) THEN Region5
  ELSE LET sat == IF FLt(T, D(647096, -3)) THEN SaturationPressure(T) ELSE Err
       IN IF FLt(T, D(647096, -3)) /\ sat.ok
          THEN (IF FGe(p, sat.v) THEN Region1 ELSE Region2)
          ELSE LET T23 == B23T(FDiv(p, D(1, 6)))
               IN IF T23.ok
                  THEN (IF FGe(T, T23.v) THEN Region2 ELSE Region3)
                  ELSE IF FGe(p, D(165292, 2)) THEN Region3 ELSE Region2


(***************************************************************************)
(* Results of the region calculators: (calc_core.Properties, error)        *)
(***************************************************************************)
Props(v, ro, u, s, h, cv, cp, w) ==
  [v |-> v, ro |-> ro, u |-> u, s |-> s, h |-> h, cv |-> cv, cp |-> cp, w |-> w]

\* calc_core.Properties{}
NoProps == Props(Zero, Zero, Zero, Zero, Zero, Zero, Zero, Zero)

Fail(e) == [ok |-> FALSE, err |-> e, props |-> NoProps]
Success(pr) == [ok |-> TRUE, err |-> "", props |-> pr]

\* a calculator: the applicability checks, then the properties
Checked(check, result) == Once({IF c # "" THEN Fail(c) ELSE result : c \in {check}})

finiteAll(pr) ==
  /\ ~NonFinite(pr.v) /\ ~NonFinite(pr.ro) /\ ~NonFinite(pr.u) /\ ~NonFinite(pr.s)
  /\ ~NonFinite(pr.h) /\ ~NonFinite(pr.cv) /\ ~NonFinite(pr.cp) /\ ~NonFinite(pr.w)

\* math.Pow(x, 2)
Sq(a) == FMul(a, a)

(***************************************************************************)
(* The dimensionless potential and its derivatives.  The series are sums   *)
(* over the rows of the coefficient tables; their values at a state are    *)
(* drawn from PotSet.  A NaN argument makes every sum NaN, as every table  *)
(* has rows with non-zero exponents in both arguments.                     *)
(***************************************************************************)
MaxG == 1

Pot(g, gPi, gPiPi, gTau, gTauTau, gPiTau) ==
  [g |-> g, gPi |-> gPi, gPiPi |-> gPiPi, gTau |-> gTau,
   gTauTau |-> gTauTau, gPiTau |-> gPiTau]

PotSet ==
  {Pot(D(1, 0), D(a, 0), D(b, 0), D(2, 0), D(c, 0), D(d, 0)) :
     a \in -MaxG..MaxG, b \in -MaxG..MaxG, c \in {-MaxG, MaxG}, d \in 0..MaxG}

NaNPot == Pot(NaN, NaN, NaN, NaN, NaN, NaN)

Series(pi, tau, pot) == IF IsNaN(pi) \/ IsNaN(tau) THEN NaNPot ELSE pot

(***************************************************************************)
(* Region 1                                                                *)
(***************************************************************************)
referR == D(461526, -6)

Region1Check(tCelsius, pPascal) ==
  LET T == FAdd(tCelsius, D(27315, -2))
      ps == SaturationPressure(T)
  IN IF ~LoadOK("region1") THEN "load"
     ELSE IF FLt(tCelsius, D(-27315, -2)) THEN "temperature below absolute zero"
     ELSE IF FLe(pPascal, Zero) THEN "pressure must be positive"
     ELSE IF FGt(T, D(62315, -2)) THEN "Region 1: T exceeds 623.15 K"
     ELSE IF FGt(pPascal, D(100, 6)) THEN "Region 1: p exceeds 100 MPa"
     ELSE IF FLt(T, D(647096, -3)) /\ ps.ok /\ FLt(pPascal, ps.v)
          THEN "Region 1 not applicable: p < psat"
     ELSE ""

Region1Assemble(tCelsius, pPascal, pot) ==
  LET T == FAdd(tCelsius, D(27315, -2))
      PMPa == FDiv(pPascal, D(1, 6))
      pi == FDiv(PMPa, D(1653, -2))
      tau == FDiv(D(1386, 0), T)
      q == Series(pi, tau, pot)
      R == referR
      pKPa == FDiv(pPascal, D(1000, 0))
      RT == FMul(R, T)
      piG == FMul(pi, q.gPi)
      mix == Sq(FSub(q.gPi, FMul(tau, q.gPiTau)))
      tt == FMul(tau, tau)
      v == FMul(piG, FDiv(RT, pKPa))
      ro == FDiv(pKPa, FMul(RT, piG))
      u == FMul(RT, FSub(FMul(tau, q.gTau), piG))
      s == FMul(R, FSub(FMul(tau, q.gTau), q.g))
      h == FMul(FMul(RT, tau), q.gTau)
      cv == FMul(R, FAdd(FMul(FNeg(tt), q.gTauTau), FDiv(mix, q.gPiPi)))
      cp == FMul(R, FAdd(FMul(FNeg(tt), q.gTauTau), FDiv(mix, q.gPiPi)))
      denominator == FSub(q.gPiPi, FDiv(mix, FMul(tt, q.gTauTau)))
      w == FSqrt(FMul(FMul(FMul(R, D(1000, 0)), T),
                      FDiv(FMul(q.gPi, q.gPi), FAbs(denominator))))
      pr == Props(v, ro, u, s, h, cv, cp, w)
  IN IF FLt(FAbs(denominator), D(1, -10))
       THEN Fail("Region 1: denominator too small for speed of sound")
     ELSE IF ~finiteAll(pr) THEN Fail("Region 1 calculation produced non-finite values")
     ELSE IF FLe(ro, Zero) \/ FLe(v, Zero) \/ FLe(w, Zero)
       THEN Fail("Region 1 invalid physical result")
     ELSE IF FLe(cp, Zero) \/ FLe(cv, Zero)
       THEN Fail("Region 1 heat capacities are non-positive")
     ELSE Success(pr)

Region1Calculate(tCelsius, pPascal, pot) ==
  Checked(Region1Check(tCelsius, pPascal), Region1Assemble(tCelsius, pPascal, pot))

(***************************************************************************)
(* Region 2                                                                *)
(***************************************************************************)
\* Region2Check without the comparison against the saturation pressure
Region2Check_NoSaturation(tCelsius, pPascal) ==
  LET T == FAdd(tCelsius, D(27315, -2))
  IN IF FLt(tCelsius, D(-27315, -2)) THEN "temperature below absolute zero"
     ELSE IF FLe(pPascal, Zero) THEN "pressure must be positive"
     ELSE IF ~LoadOK("region2_0") \/ ~LoadOK("region2_r") THEN "load"
     ELSE IF FLt(T, D(27315, -2)) THEN "Region 2 not applicable: T below 273.15 K"
     ELSE IF FGt(T, D(107315, -2)) THEN "Region 2 not applicable: T exceeds 1073.15 K"
     ELSE IF FGt(pPascal, D(100, 6)) THEN "Region 2 not applicable: p exceeds 100 MPa"
     ELSE ""

Region2Check(tCelsius, pPascal) ==
  LET T == FAdd(tCelsius, D(27315, -2))
      ps == SaturationPressure(T)
  IN IF FLt(tCelsius, D(-27315, -2)) THEN "temperature below absolute zero"
     ELSE IF FLe(pPascal, Zero) THEN "pressure must be positive"
     ELSE IF ~LoadOK("region2_0") \/ ~LoadOK("region2_r") THEN "load"
     ELSE IF FLt(T, D(27315, -2)) THEN "Region 2 not applicable: T below 273.15 K"
     ELSE IF FGt(T, D(107315, -2)) THEN "Region 2 not applicable: T exceeds 1073.15 K"
     ELSE IF FGt(pPascal, D(100, 6)) THEN "Region 2 not applicable: p exceeds 100 MPa"
     ELSE IF FLt(T, D(647096, -3)) /\ ps.ok /\ FGt(pPascal, ps.v)
          THEN "Region 2 not applicable: p > psat"
     ELSE ""

\* the property formulas shared, letter for letter, by regions 2 and 5
GibbsAssemble(T, pPascal, pi, tau, q) ==
  LET R == referR
      pKPa == FDiv(pPascal, D(1000, 0))
      RT == FMul(R, T)
      piG == FMul(pi, q.gPi)
      mix == Sq(FSub(q.gPi, FMul(tau, q.gPiTau)))
      tt == FMul(tau, tau)
      v == FMul(piG, FDiv(RT, pKPa))
      ro == FDiv(pKPa, FMul(RT, piG))
      u == FMul(RT, FSub(FMul(tau, q.gTau), piG))
      s == FMul(R, FSub(FMul(tau, q.gTau), q.g))
      h == FMul(FMul(RT, tau), q.gTau)
      cv == FMul(R, FAdd(FMul(FNeg(tt), q.gTauTau), FDiv(mix, q.gPiPi)))
      cp == FMul(R, FAdd(FMul(FNeg(tt), q.gTauTau), FDiv(mix, q.gPiPi)))
      w == FSqrt(FMul(FMul(FMul(R, D(1000, 0)), T),
                      FDiv(FMul(q.gPi, q.gPi),
                           FSub(FDiv(mix, FMul(tt, q.gTauTau)), q.gPiPi))))
  IN Props(v, ro, u, s, h, cv, cp, w)

Region2Assemble(tCelsius, pPascal, pot) ==
  LET T == FAdd(tCelsius, D(27315, -2))
      PMPa == FDiv(pPascal, D(1, 6))
      pi == FDiv(PMPa, D(1, 0))
      tau == FDiv(D(540, 0), T)
      pr == GibbsAssemble(T, pPascal, pi, tau, Series(pi, tau, pot))
  IN IF ~finiteAll(pr) THEN Fail("Region 2 calculation produced non-finite values")
     ELSE IF FLe(pr.ro, Zero) \/ FLe(pr.v, Zero) \/ FLe(pr.w, Zero)
       THEN Fail("Region 2 invalid physical result")
     ELSE IF FLe(pr.cp, Zero) \/ FLe(pr.cv, Zero)
       THEN Fail("Region 2 heat capacities are non-positive")
     ELSE Success(pr)

Region2Calculate(tCelsius, pPascal, pot) ==
  Checked(Region2Check(tCelsius, pPascal), Region2Assemble(tCelsius, pPascal, pot))

(***************************************************************************)
(* Region 5: the envelope checks, then the properties as computed; there   *)
(* is no validation of the result.                                         *)
(***************************************************************************)
Region5Check(tCelsius, pPascal) ==
  LET T == FAdd(tCelsius, D(27315, -2))
  IN IF FLt(tCelsius, D(-27315, -2)) THEN "temperature below absolute zero"
     ELSE IF FLe(pPascal, Zero) THEN "pressure must be positive"
     ELSE IF ~LoadOK("region5_0") \/ ~LoadOK("region5_r") THEN "load"
     ELSE IF FLt(T, D(107315, -2)) \/ FGt(T, D(227315, -2))
          THEN "Region 5: T out of range"
     ELSE IF FGt(pPascal, D(50, 6)) THEN "Region 5: p out of range"
     ELSE ""

Region5Assemble(tCelsius, pPascal, pot) ==
  LET T == FAdd(tCelsius, D(27315, -2))
      PMPa == FDiv(pPascal, D(1, 6))
      pi == FDiv(PMPa, D(1, 0))
      tau == FDiv(D(1000, 0), T)
  IN Success(GibbsAssemble(T, pPascal, pi, tau, Series(pi, tau, pot)))

Region5Calculate(tCelsius, pPascal, pot) ==
  Checked(Region5Check(tCelsius, pPascal), Region5Assemble(tCelsius, pPascal, pot))


(***************************************************************************)
(* Region 3.  T(p,h), v(p,h), T(p,s), v(p,s) and h3ab(p) are series over   *)
(* coefficient tables and the inversions are bisections on them; what they *)
(* return for one call is drawn from R3Draws:                              *)
(*   hb          h3ab(p)                                                   *)
(*   h3a, h3b    the inversion of T(p,h) = T in subregion 3a, 3b           *)
(*   v           v(p,h)                                                    *)
(*   ssol        the inversion of T(p,s) = T                               *)
(*   hp, hm      the inversions at T + dT, T - dT                          *)
(*   vp, vm      v(p,hp), v(p,hm)                                          *)
(*   vpp, vmm    v at p + dp, p - dp and the same T                        *)
(*   vpsp, vpsm  v(p + dp, s), v(p - dp, s)                                *)
(***************************************************************************)
VLo == D(199999, -8)
VMid == D(2, -3)
VHi == D(200001, -8)

R3Draws ==
  {[hb |-> hb, h3a |-> a, h3b |-> b, v |-> v, ssol |-> ss,
    hp |-> hpm[1], hm |-> hpm[2], vp |-> vT[1], vm |-> vT[2],
    vpp |-> vpT[1], vmm |-> vpT[2], vpsp |-> vps[1], vpsm |-> vps[2]] :
     hb \in {D(209594, -2), D(50, 0)},
     a \in {Err, Ok(D(1900, 0))},
     b \in {Err, Ok(D(2500, 0))},
     v \in {VMid, Zero, NaN},
     ss \in {Err, Ok(D(4, 0))},
     hpm \in {<<Ok(D(190001, -2)), Ok(D(189999, -2))>>,
              <<Ok(D(189999, -2)), Ok(D(190001, -2))>>,
              <<Err, Err>>},
     vT \in {<<VHi, VLo>>, <<VMid, VMid>>},
     vpT \in {<<Ok(VLo), Ok(VHi)>>, <<Ok(VHi), Ok(VLo)>>, <<Err, Err>>},
     vps \in {<<VLo, VHi>>, <<VHi, VLo>>}}

NoDraw3 ==
  [hb |-> Zero, h3a |-> Err, h3b |-> Err, v |-> Zero, ssol |-> Err,
   hp |-> Err, hm |-> Err, vp |-> Zero, vm |-> Zero, vpp |-> Err, vmm |-> Err,
   vpsp |-> Zero, vpsm |-> Zero]

\* the checks of region3.Calculate with the B23 test also failing when
\* B23T cannot be evaluated
Region3Check_B23Required(tCelsius, pPascal) ==
  LET T == FAdd(tCelsius, D(27315, -2))
      tB23 == B23T(FDiv(pPascal, D(1, 6)))
  IN IF FLt(tCelsius, D(-27315, -2)) THEN "temperature below absolute zero"
     ELSE IF FLe(pPascal, Zero) THEN "pressure must be positive"
     ELSE IF \E t \in {"region3", "region3_ph", "region3_ps", "h3ab"} : ~LoadOK(t)
          THEN "load"
     ELSE IF FLt(T, D(62315, -2)) \/ FGt(T, D(107315, -2))
          THEN "Region 3 not applicable: T out of range"
     ELSE IF FGt(pPascal, D(100, 6)) THEN "Region 3 not applicable: p exceeds 100 MPa"
     ELSE IF FGe(T, D(62315, -2)) /\ FGe(pPascal, D(16529, 3))
          THEN (IF FGt(T, D(62315, -2)) /\ (~tB23.ok \/ FLt(T, tB23.v))
                THEN "Region 3 not applicable: T below B23 boundary"
                ELSE "")
     ELSE "Region 3 not applicable: below minimum boundaries"

Region3Check(tCelsius, pPascal) ==
  LET T == FAdd(tCelsius, D(27315, -2))
      tB23 == B23T(FDiv(pPascal, D(1, 6)))
  IN IF FLt(tCelsius, D(-27315, -2)) THEN "temperature below absolute zero"
     ELSE IF FLe(pPascal, Zero) THEN "pressure must be positive"
     ELSE IF \E t \in {"region3", "region3_ph", "region3_ps", "h3ab"} : ~LoadOK(t)
          THEN "load"
     ELSE IF FLt(T, D(62315, -2)) \/ FGt(T, D(107315, -2))
          THEN "Region 3 not applicable: T out of range"
     ELSE IF FGt(pPascal, D(100, 6)) THEN "Region 3 not applicable: p exceeds 100 MPa"
     ELSE IF FGe(T, D(62315, -2)) /\ FGe(pPascal, D(16529, 3))
          THEN (IF FGt(T, D(62315, -2)) /\ tB23.ok /\ FLt(T, tB23.v)
                THEN "Region 3 not applicable: T below B23 boundary"
                ELSE "")
     ELSE "Region 3 not applicable: below minimum boundaries"

Region3Assemble(tCelsius, pPascal, d) ==
  LET T == FAdd(tCelsius, D(27315, -2))
      solved == d.h3a.ok \/ d.h3b.ok
      hsol == IF d.h3a.ok THEN d.h3a.v ELSE d.h3b.v
      v == d.v
      ro == FDiv(D(1, 0), v)
      h == hsol
      u == FSub(h, FDiv(FMul(pPascal, v), D(1000, 0)))
      s == d.ssol.v
      dT == D(1, -3)
      cp == FDiv(FSub(d.hp.v, d.hm.v), FMul(D(2, 0), dT))
      dvdTp == FDiv(FSub(d.vp, d.vm), FMul(D(2, 0), dT))
      alpha == FMul(FDiv(D(1, 0), v), dvdTp)
      dp == D(1, 3)
      dvdpT == FDiv(FSub(d.vpp.v, d.vmm.v), FMul(D(2, 0), dp))
      kappaT == FMul(FNeg(FDiv(D(1, 0), v)), dvdpT)
      cv == FSub(cp, FDiv(FDiv(FMul(FMul(T, alpha), alpha), FMul(ro, kappaT)),
                          D(1000, 0)))
      dvdps == FDiv(FSub(d.vpsp, d.vpsm), FMul(D(2, 0), dp))
      kappaS == FMul(FNeg(FDiv(D(1, 0), v)), dvdps)
      w == FSqrt(FDiv(D(1, 0), FMul(ro, kappaS)))
      pr == Props(v, ro, u, s, h, cv, cp, w)
  IN IF ~solved
       THEN (IF FGt(d.hb, D(100, 0)) /\ FLt(d.hb, D(4000, 0))
             THEN Fail("Region 3: failed to invert T(p,h) in both subregions")
             ELSE Fail("Region 3: failed to invert T(p,h)"))
     ELSE IF ~FGt(v, Zero) \/ IsNaN(v) \/ IsInf(v)
       THEN Fail("Region 3: invalid specific volume")
     ELSE IF ~d.ssol.ok THEN Fail("Region 3: failed to invert T(p,s)")
     ELSE IF ~d.hp.ok \/ ~d.hm.ok THEN Fail("bisection")
     ELSE IF ~d.vpp.ok \/ ~d.vmm.ok THEN Fail("bisection")
     ELSE IF ~finiteAll(pr) THEN Fail("Region 3 produced non-finite values")
     ELSE IF FLe(v, Zero) \/ FLe(ro, Zero) \/ FLe(w, Zero) \/ FLe(cp, Zero)
             \/ FLe(cv, Zero)
       THEN Fail("Region 3 invalid physical results (non-positive)")
     ELSE Success(pr)

Region3Calculate(tCelsius, pPascal, d) ==
  Checked(Region3Check(tCelsius, pPascal), Region3Assemble(tCelsius, pPascal, d))

(***************************************************************************)
(* The dispatcher.  ev carries the values the selected calculator's series *)
(* and inversions take in this call.                                       *)
(***************************************************************************)
NoPot == Pot(Zero, Zero, Zero, Zero, Zero, Zero)
NoEv == [pot |-> NoPot, r3 |-> NoDraw3]

\* the switch of calculateFromTP with no case for Region5
RunRegion_NoRegion5(region, temperature, pressure, ev) ==
  CASE region = Region1 -> Region1Calculate(temperature, pressure, ev.pot)
    [] region = Region2 -> Region2Calculate(temperature, pressure, ev.pot)
    [] region = Region3 -> Region3Calculate(temperature, pressure, ev.r3)
    [] region = Region4 ->
         Once({IF psat.ok /\ FGe(pressure, psat.v)
               THEN Region1Calculate(temperature, pressure, ev.pot)
               ELSE Region2Calculate(temperature, pressure, ev.pot) :
                 psat \in {SaturationPressure(FAdd(temperature, D(27315, -2)))}})
    [] OTHER -> Fail("undefined region")

\* the switch of calculateFromTP
RunRegion(region, temperature, pressure, ev) ==
  CASE region = Region1 -> Region1Calculate(temperature, pressure, ev.pot)
    [] region = Region2 -> Region2Calculate(temperature, pressure, ev.pot)
    [] region = Region3 -> Region3Calculate(temperature, pressure, ev.r3)
    [] region = Region4 ->
         Once({IF psat.ok /\ FGe(pressure, psat.v)
               THEN Region1Calculate(temperature, pressure, ev.pot)
               ELSE Region2Calculate(temperature, pressure, ev.pot) :
                 psat \in {SaturationPressure(FAdd(temperature, D(27315, -2)))}})
    [] region = Region5 -> Region5Calculate(temperature, pressure, ev.pot)
    [] OTHER -> Fail("undefined region")

\* the region calculators the switch calls
CalledFor(region, temperature, pressure) ==
  CASE region = Region4 ->
         Once({IF psat.ok /\ FGe(pressure, psat.v) THEN {Region1} ELSE {Region2} :
                 psat \in {SaturationPressure(FAdd(temperature, D(27315, -2)))}})
    [] region \in {Region1, Region2, Region3, Region5} -> {region}
    [] OTHER -> {}

\* (props, region, err) and the region calculators that were called
calculateFromTP(temperature, pressure, ev) ==
  Once({Once({[ok |-> r.ok, err |-> r.err, props |-> r.props,
               region |-> IF region \in Region1..Region5 THEN region ELSE RegionAuto,
               called |-> CalledFor(region, temperature, pressure)] :
                r \in {RunRegion(region, temperature, pressure, ev)}}) :
          region \in {RegionFromTP(FAdd(temperature, D(27315, -2)), pressure)}})

\* Calculator.Calculate, Mode = "TP": a failed call returns no Result
CalculateTPResult(temperature, pressure, ev) ==
  Once({IF r.ok THEN r ELSE [r EXCEPT !.region = RegionAuto] :
          r \in {calculateFromTP(temperature, pressure, ev)}})

\* the draws a call can meet: those of the calculator that gets to its series
Draws(region, tCelsius, pPascal) ==
  CASE region = Region1 /\ Region1Check(tCelsius, pPascal) = ""
         -> {[pot |-> q, r3 |-> NoDraw3] : q \in PotSet}
    [] region = Region2 /\ Region2Check(tCelsius, pPascal) = ""
         -> {[pot |-> q, r3 |-> NoDraw3] : q \in PotSet}
    [] region = Region5 /\ Region5Check(tCelsius, pPascal) = ""
         -> {[pot |-> q, r3 |-> NoDraw3] : q \in PotSet}
    [] region = Region3 /\ Region3Check(tCelsius, pPascal) = ""
         -> {[pot |-> NoPot, r3 |-> d] : d \in R3Draws}
    [] OTHER -> {NoEv}

(***************************************************************************)
(* Region 3 from (h, s).  p(h,s), T(p,s) and v(p,s) are series over        *)
(* coefficient tables; what they return for one call is drawn from HSDraws:*)
(*   p           100*sum (3a) or 100/denom (3b), in Pa                     *)
(*   T, v        T(p,s), v(p,s)                                            *)
(*   Tp, Tm      T(p, s + ds), T(p, s - ds)                                *)
(*   vpsp, vpsm  v(p + dp, s), v(p - dp, s)                                *)
(***************************************************************************)
scKJperKgK == D(441202, -5)

validateHS(h, s) ==
  IF ~(FGt(h, Zero) /\ FLt(h, D(4000, 0)))
    THEN "Region 3: enthalpy out of expected range"
  ELSE IF ~(FGt(s, Zero) /\ FLt(s, D(10, 0)))
    THEN "Region 3: entropy out of expected range"
  ELSE ""

\* PressureHS3a, PressureHS3b behind the selection by entropy
PressureFromHS(h, s, d) ==
  IF ~LoadOK("region3_hs") THEN "load"
  ELSE IF validateHS(h, s) # "" THEN validateHS(h, s)
  ELSE IF IsNaN(d.p) \/ IsInf(d.p) \/ FLe(d.p, Zero)
    THEN (IF FLe(s, scKJperKgK) THEN "Region 3 (3a) invalid pressure result"
          ELSE "Region 3 (3b) invalid pressure result")
  ELSE ""

HSDraws ==
  {[p |-> p, T |-> D(650, 0), v |-> v, Tp |-> Tpm[1], Tm |-> Tpm[2],
    vpsp |-> vps[1], vpsm |-> vps[2]] :
     p \in {D(25, 6), D(-1, 6)},
     v \in {VMid, Zero},
     Tpm \in {<<D(650001, -3), D(649999, -3)>>, <<D(650, 0), D(650, 0)>>},
     vps \in {<<VLo, VHi>>, <<VHi, VLo>>}}

NoDrawHS ==
  [p |-> Zero, T |-> Zero, v |-> Zero, Tp |-> Zero, Tm |-> Zero,
   vpsp |-> Zero, vpsm |-> Zero]

\* what PropertiesFromHS returns before it evaluates T(p,s)
HSCheck(h, s, d) ==
  IF PressureFromHS(h, s, d) # "" THEN PressureFromHS(h, s, d)
  ELSE IF ~LoadOK("region3_ps") THEN "load"
  ELSE ""

HSAssemble(h, s, d) ==
  LET p == d.p
      T == d.T
      v == d.v
      ro == FDiv(D(1, 0), v)
      u == FSub(h, FDiv(FMul(p, v), D(1000, 0)))
      ds == D(1, -5)
      dTds == FDiv(FSub(d.Tp, d.Tm), FMul(D(2, 0), ds))
      cp == FDiv(T, dTds)
      dpS == D(1, 3)
      dvdps == FDiv(FSub(d.vpsp, d.vpsm), FMul(D(2, 0), dpS))
      kappaS == FMul(FNeg(FDiv(D(1, 0), v)), dvdps)
      w == FSqrt(FDiv(D(1, 0), FMul(ro, kappaS)))
  IN IF ~FGt(v, Zero) \/ IsNaN(v) \/ IsInf(v)
       THEN Fail("Region 3 HS: invalid specific volume from Vps")
     ELSE IF IsZero(dTds) \/ IsNaN(dTds) \/ IsInf(dTds)
       THEN Fail("Region 3 HS: invalid dT/ds for cp")
     ELSE IF FLe(kappaS, Zero) \/ IsNaN(kappaS) \/ IsInf(kappaS)
       THEN Fail("Region 3 HS: invalid isentropic compressibility")
     ELSE IF \E x \in {ro, u, cp, w} : ~FGt(x, Zero) \/ IsNaN(x) \/ IsInf(x)
       THEN Fail("Region 3 HS: non-physical result")
     ELSE Success(Props(v, ro, u, s, h, cp, cp, w))

\* region3.PropertiesFromHS: (p, T, props, err)
PropertiesFromHS(h, s, d) ==
  Once({[ok |-> r.ok, err |-> r.err, props |-> r.props,
         p |-> IF r.ok THEN d.p ELSE Zero, T |-> IF r.ok THEN d.T ELSE Zero] :
          r \in {Checked(HSCheck(h, s, d), HSAssemble(h, s, d))}})

\* Calculator.guessRegionFromHS
guessRegionFromHS(enthalpy, entropy) ==
  IF FLt(enthalpy, D(2084264, -3)) /\ FLt(entropy, D(4412, -3)) THEN Region1
  ELSE IF FGt(enthalpy, D(2084264, -3)) \/ FGt(entropy, D(4412, -3)) THEN Region2
  ELSE Region3

\* Calculator.Calculate with the guess wrapped into every error
CalculateHSResult_NoGuess(enthalpy, entropy, d) ==
  Once({IF r.ok
        THEN [ok |-> TRUE, err |-> "", props |-> r.props, region |-> Region3,
              called |-> {}, guess |-> RegionAuto]
        ELSE [ok |-> FALSE, err |-> r.err, props |-> NoProps,
              region |-> RegionAuto, called |-> {}, guess |-> RegionAuto] :
          r \in {PropertiesFromHS(enthalpy, entropy, d)}})

\* Calculator.Calculate, Mode other than "TP": region 3 from (h, s), the
\* heuristic region in the error; no region calculator is called
CalculateHSResult(enthalpy, entropy, d) ==
  Once({IF r.ok
        THEN [ok |-> TRUE, err |-> "", props |-> r.props, region |-> Region3,
              called |-> {}, guess |-> RegionAuto]
        ELSE [ok |-> FALSE, err |-> "h,s calculation error", props |-> NoProps,
              region |-> RegionAuto, called |-> {},
              guess |-> guessRegionFromHS(enthalpy, entropy)] :
          r \in {PropertiesFromHS(enthalpy, entropy, d)}})

\* the draws an (h, s) call can meet
DrawsHS(h, s) ==
  IF LoadOK("region3_hs") /\ validateHS(h, s) = "" THEN HSDraws ELSE {NoDrawHS}

HIn == {D(2000, 0), D(-100, 0), D(2600, 0), D(208426, -2), NaN}
SIn == {D(4, 0), D(-1, 0), D(55, -1), NaN}

(***************************************************************************)
(* The root finder of Region 3.  The abscissae of a call are whole numbers *)
(* of a unit chosen so that every grid point and every midpoint the call   *)
(* visits is a whole number: [a, b] is scanN sub-intervals of 256 units.   *)
(* A rootFunc f is given by:                                               *)
(*   s0     the sign of f at the left of every root                        *)
(*   roots  where f is zero and changes sign                               *)
(*   mag    |f| away from the roots                                        *)
(*   errs   where f returns an error                                       *)
(*   nans   where f returns NaN                                            *)
(***************************************************************************)
scanN == 50

FVal(v) == [ok |-> TRUE, k |-> "num", v |-> v]
FErr == [ok |-> FALSE, k |-> "num", v |-> 0]
FNaN == [ok |-> TRUE, k |-> "nan", v |-> 0]

\* f(x)
Apply(f, x) ==
  IF x \in f.errs THEN FErr
  ELSE IF x \in f.nans THEN FNaN
  ELSE IF x \in f.roots THEN FVal(0)
  ELSE IF Cardinality({r \in f.roots : r < x}) % 2 = 0 THEN FVal(f.s0 * f.mag)
  ELSE FVal(-f.s0 * f.mag)

\* u*v > 0 and u*v <= 0 of float64: both false when a factor is NaN
ProdPos(u, v) == u.k = "num" /\ v.k = "num" /\ u.v * v.v > 0
ProdNonPos(u, v) == u.k = "num" /\ v.k = "num" /\ u.v * v.v <= 0

\* a + (float64(k)/float64(n))*(b-a)
GridX(a, b, k) == a + (k * (b - a)) \div scanN

\* (0, err) and (x, nil); seen lists the points where f was called
RootErr(e, seen) == [ok |-> FALSE, x |-> 0, err |-> e, seen |-> seen]
RootVal(x, seen) == [ok |-> TRUE, x |-> x, err |-> "", seen |-> seen]

\* the bisection loop from iteration i on
RECURSIVE bisect(_, _, _, _, _, _, _, _, _)
bisect(f, a, b, fa, fb, i, maxIter, tol, seen) ==
  IF i >= maxIter THEN RootErr("bisection did not converge", seen)
  ELSE LET m == (a + b) \div 2
           fm == Apply(f, m)
       IN IF ~fm.ok THEN RootErr("f", Append(seen, m))
          ELSE IF (fm.k = "num" /\ IAbs(fm.v) < tol) \/ IAbs(b - a) < tol
            THEN RootVal(m, Append(seen, m))
          ELSE IF ProdNonPos(fa, fm)
            THEN bisect(f, a, m, fa, fm, i + 1, maxIter, tol, Append(seen, m))
            ELSE bisect(f, m, b, fm, fb, i + 1, maxIter, tol, Append(seen, m))

\* the scan that keeps the last sign change of the grid instead of the first
scan_LastChange(f, a, b, k, prevX, prevF, seen) ==
  LET ks == {j \in 1..scanN :
               ProdNonPos(Apply(f, GridX(a, b, j - 1)), Apply(f, GridX(a, b, j)))}
      top == CHOOSE j \in ks : \A i \in ks : i <= j
      all == seen \o [j \in 1..scanN |-> GridX(a, b, j)]
  IN IF \E j \in 1..scanN : ~Apply(f, GridX(a, b, j)).ok
       THEN [ok |-> FALSE, found |-> FALSE, a |-> a, b |-> b,
             fa |-> prevF, fb |-> prevF, seen |-> all]
     ELSE IF ks = {}
       THEN [ok |-> TRUE, found |-> FALSE, a |-> a, b |-> b,
             fa |-> prevF, fb |-> prevF, seen |-> all]
     ELSE [ok |-> TRUE, found |-> TRUE, a |-> GridX(a, b, top - 1),
           b |-> GridX(a, b, top), fa |-> Apply(f, GridX(a, b, top - 1)),
           fb |-> Apply(f, GridX(a, b, top)), seen |-> all]

\* the scan loop from k on: the bracket of the first sign change, if any
RECURSIVE scan(_, _, _, _, _, _, _)
scan(f, a, b, k, prevX, prevF, seen) ==
  IF k > scanN THEN [ok |-> TRUE, found |-> FALSE, a |-> a, b |-> b,
                     fa |-> prevF, fb |-> prevF, seen |-> seen]
  ELSE LET x == GridX(a, b, k)
           fx == Apply(f, x)
       IN IF ~fx.ok THEN [ok |-> FALSE, found |-> FALSE, a |-> a, b |-> b,
                          fa |-> prevF, fb |-> fx, seen |-> Append(seen, x)]
          ELSE IF ProdNonPos(prevF, fx)
            THEN [ok |-> TRUE, found |-> TRUE, a |-> prevX, b |-> x,
                  fa |-> prevF, fb |-> fx, seen |-> Append(seen, x)]
          ELSE scan(f, a, b, k + 1, x, fx, Append(seen, x))

\* bracketAndBisect that propagates no error of f from the scan
bracketAndBisect_ScanErrorIgnored(f, a, b, maxIter, tol) ==
  LET fa == Apply(f, a)
      fb == Apply(f, b)
      sc == scan([f EXCEPT !.errs = {}], a, b, 1, a, fa, <<a, b>>)
  IN IF ~fa.ok THEN RootErr("f", <<a>>)
     ELSE IF ~fb.ok THEN RootErr("f", <<a, b>>)
     ELSE IF fa.k # "num" \/ fb.k # "num"
       THEN RootErr("invalid function values", <<a, b>>)
     ELSE IF fa.v = 0 THEN RootVal(a, <<a, b>>)
     ELSE IF fb.v = 0 THEN RootVal(b, <<a, b>>)
     ELSE IF ProdPos(fa, fb)
       THEN (IF ~sc.found THEN RootErr("no sign change in bracket", sc.seen)
             ELSE bisect(f, sc.a, sc.b, sc.fa, sc.fb, 0, maxIter, tol, sc.seen))
     ELSE bisect(f, a, b, fa, fb, 0, maxIter, tol, <<a, b>>)

bracketAndBisect(f, a, b, maxIter, tol) ==
  LET fa == Apply(f, a)
      fb == Apply(f, b)
      sc == scan(f, a, b, 1, a, fa, <<a, b>>)
  IN IF ~fa.ok THEN RootErr("f", <<a>>)
     ELSE IF ~fb.ok THEN RootErr("f", <<a, b>>)
     ELSE IF fa.k # "num" \/ fb.k # "num"
       THEN RootErr("invalid function values", <<a, b>>)
     ELSE IF fa.v = 0 THEN RootVal(a, <<a, b>>)
     ELSE IF fb.v = 0 THEN RootVal(b, <<a, b>>)
     ELSE IF ProdPos(fa, fb)
       THEN (IF ~sc.ok THEN RootErr("f", sc.seen)
             ELSE IF ~sc.found THEN RootErr("no sign change in bracket", sc.seen)
             ELSE bisect(f, sc.a, sc.b, sc.fa, sc.fb, 0, maxIter, tol, sc.seen))
     ELSE bisect(f, a, b, fa, fb, 0, maxIter, tol, <<a, b>>)

\* the calls of bracketAndBisect: [0, 12800], tolerance 100 units
RootSites == {1300, 7680, 7700, 7750, 9000, 11500}
RootFuncs ==
  {[s0 |-> s0, roots |-> rs, mag |-> mag, errs |-> es, nans |-> ns] :
     s0 \in {-1, 1},
     rs \in {r \in SUBSET RootSites : Cardinality(r) <= 3},
     mag \in {1, 1000},
     es \in {{}, {0}, {2560}, 7690..7710},
     ns \in {{}, {0}}}
MaxIterIn == {3, 80}
TolIn == {100}
BracketIn == {<<0, 256 * scanN>>}

(***************************************************************************)
(* InputData.Validate: "" stands for nil                                   *)
(***************************************************************************)
ValidateHSMode(Enthalpy, Entropy) ==
  IF NonFinite(Enthalpy) THEN "enthalpy holds an inadmissible value"
  ELSE IF NonFinite(Entropy) THEN "entropy holds an inadmissible value"
  ELSE IF FLt(Enthalpy, Zero) THEN "enthalpy cannot be negative"
  ELSE IF FLt(Entropy, Zero) THEN "entropy cannot be negative"
  ELSE IF FGt(Enthalpy, D(5000, 0)) THEN "enthalpy exceeds the maximum"
  ELSE IF FGt(Entropy, D(15, 0)) THEN "entropy exceeds the maximum"
  ELSE ""

\* Validate without the lower bounds of IF-97 (-0.01 C, 611.657 Pa)
Validate_NoIF97Minimum(Mode, Temperature, Pressure, Enthalpy, Entropy) ==
  IF Mode # "TP" /\ Mode # "HS" THEN "invalid calculation mode"
  ELSE IF Mode = "TP"
    THEN (IF NonFinite(Temperature) THEN "temperature holds an inadmissible value"
          ELSE IF NonFinite(Pressure) THEN "pressure holds an inadmissible value"
          ELSE IF FLt(Temperature, D(-27315, -2)) THEN "temperature below absolute zero"
          ELSE IF FLe(Pressure, Zero) THEN "pressure must be positive"
          ELSE IF FGt(Temperature, D(2000, 0)) THEN "temperature exceeds 2000 C"
          ELSE IF FGt(Pressure, D(100, 6)) THEN "pressure exceeds 100 MPa"
          ELSE "")
    ELSE ValidateHSMode(Enthalpy, Entropy)

Validate(Mode, Temperature, Pressure, Enthalpy, Entropy) ==
  IF Mode # "TP" /\ Mode # "HS" THEN "invalid calculation mode"
  ELSE IF Mode = "TP"
    THEN (IF NonFinite(Temperature) THEN "temperature holds an inadmissible value"
          ELSE IF NonFinite(Pressure) THEN "pressure holds an inadmissible value"
          ELSE IF FLt(Temperature, D(-27315, -2)) THEN "temperature below absolute zero"
          ELSE IF FLe(Pressure, Zero) THEN "pressure must be positive"
          ELSE IF FGt(Temperature, D(2000, 0)) THEN "temperature exceeds 2000 C"
          ELSE IF FGt(Pressure, D(100, 6)) THEN "pressure exceeds 100 MPa"
          ELSE IF FLt(Temperature, D(-1, -2)) THEN "temperature below -0.01 C"
          ELSE IF FLt(Pressure, D(611657, -3)) THEN "pressure below 611.657 Pa"
          ELSE "")
    ELSE ValidateHSMode(Enthalpy, Entropy)

Modes == {"TP", "HS", "INVALID"}

\* the bounds of Validate themselves
TEdge == {D(-27315, -2), D(-1, -2), D(2000, 0)}
PEdge == {Zero, D(611657, -3), D(100, 6)}

TIn == {D(-300, 0), D(-100, 0), D(20, 0), D(100, 0), D(360, 0), D(37685, -2),
        D(1200, 0), D(122685, -2), D(2100, 0), NaN, Inf(1)}
PIn == {D(-1000, 0), D(100, 0), D(101325, 0), D(500000, 0), D(1, 6), D(25, 6),
        D(200, 6), D(15, 8), NaN, Inf(1)}

(***************************************************************************)
(* package cache: keys and their hash.  A uint64 is the sequence of its    *)
(* eight bytes, least significant first; a string is the sequence of its   *)
(* bytes.                                                                  *)
(***************************************************************************)
RECURSIVE Xor(_, _, _)
\* a XOR b on numbers of nbits bits
Xor(a, b, nbits) ==
  IF nbits = 0 THEN 0
  ELSE ((a + b) % 2) + 2 * Xor(a \div 2, b \div 2, nbits - 1)

\* fnv.New64a: the offset basis 0xcbf29ce484222325
fnvOffset64 == <<37, 35, 34, 132, 228, 156, 242, 203>>

RECURSIVE MulPrime64(_, _, _)
\* x * 0x100000001b3 mod 2^64 from byte i on: the prime is 2^40 + 435
MulPrime64(x, i, carry) ==
  IF i > 8 THEN <<>>
  ELSE Once({<<t % 256>> \o MulPrime64(x, i + 1, t \div 256) :
               t \in {435 * x[i] + (IF i > 5 THEN x[i - 5] ELSE 0) + carry}})

RECURSIVE fnvWrite(_, _)
\* (*sum64a).Write: for each byte, hash ^= byte; hash *= prime64
fnvWrite(h, bytes) ==
  IF bytes = <<>> THEN h
  ELSE fnvWrite(MulPrime64([h EXCEPT ![1] = Xor(h[1], Head(bytes), 8)], 1, 0),
                Tail(bytes))

\* rune(x) of a float64 within the range of int32: the fraction is dropped
RuneOf(x) ==
  IF x.e >= 0 THEN x.m * Pow10(x.e)
  ELSE ISgn(x.m) * (IAbs(x.m) \div Pow10(-x.e))

\* []byte(string(r)): the UTF-8 encoding of r, of U+FFFD when r is not a
\* valid code point
Utf8(r) ==
  IF r < 0 \/ r > 1114111 \/ (r >= 55296 /\ r <= 57343) THEN <<239, 191, 189>>
  ELSE IF r < 128 THEN <<r>>
  ELSE IF r < 2048 THEN <<192 + (r \div 64), 128 + (r % 64)>>
  ELSE IF r < 65536
       THEN <<224 + (r \div 4096), 128 + ((r \div 64) % 64), 128 + (r % 64)>>
  ELSE <<240 + (r \div 262144), 128 + ((r \div 4096) % 64),
         128 + ((r \div 64) % 64), 128 + (r % 64)>>

CacheKey(T, P, Region) == [T |-> T, P |-> P, Region |-> Region]

\* Cache.hashKey
hashKey(key) ==
  fnvWrite(fnvOffset64,
           key.Region \o <<0>> \o Utf8(RuneOf(key.T)) \o <<0>>
             \o Utf8(RuneOf(key.P)))

\* the strings "region1" and "region2"
region1Str == <<114, 101, 103, 105, 111, 110, 49>>
region2Str == <<114, 101, 103, 105, 111, 110, 50>>

\* the keys of the cache tests, and keys next to them
Keys ==
  {CacheKey(D(200, 0), D(1, 6), region1Str),
   CacheKey(D(200, 0), D(1, 6), region2Str),
   CacheKey(D(2005, -1), D(1, 6), region1Str)}


Values == {"value1", "value2"}

CacheEntry(Value, Timestamp, TTL) ==
  [Value |-> Value, Timestamp |-> Timestamp, TTL |-> TTL]

\* make(map[uint64]*CacheEntry)
NoEntries == <<>>

Put(es, h, e) == [x \in DOMAIN es \cup {h} |-> IF x = h THEN e ELSE es[x]]
Delete(es, h) == [x \in DOMAIN es \ {h} |-> es[x]]

\* time.Since(entry.Timestamp) > entry.TTL at time t
Expired(e, t) == t - e.Timestamp > e.TTL

\* the hashes evictOldest can end its loop with: the range over the map
\* runs in any order, the first entry met with the least timestamp stays
OldestHashes(es) ==
  {h \in DOMAIN es : \A x \in DOMAIN es : es[h].Timestamp <= es[x].Timestamp}

zeroHash == <<0, 0, 0, 0, 0, 0, 0, 0>>

\* Cache.evictOldest: the maps it can leave
evictOldest(es) ==
  IF DOMAIN es = {} THEN {es}
  ELSE {IF h # zeroHash THEN Delete(es, h) ELSE es : h \in OldestHashes(es)}

\* Cache.SetWithTTL on the map es of a cache of capacity size at time t:
\* the maps it can leave
SetWithTTLTo(es, size, key, value, ttl, t) ==
  {Put(e2, hashes[key], CacheEntry(value, t, ttl)) :
     e2 \in (IF Cardinality(DOMAIN es) >= size THEN evictOldest(es) ELSE {es})}

\* Cache.Get, one caller: (value, found) and the map it leaves
GetFrom(es, key, t) ==
  IF hashes[key] \notin DOMAIN es
  THEN [found |-> FALSE, value |-> "nil", entries |-> es]
  ELSE IF Expired(es[hashes[key]], t)
  THEN [found |-> FALSE, value |-> "nil", entries |-> Delete(es, hashes[key])]
  ELSE [found |-> TRUE, value |-> es[hashes[key]].Value, entries |-> es]

\* Cache.Cleanup at time t
CleanupAt(es, t) ==
  [x \in {h \in DOMAIN es : ~Expired(es[h], t)} |-> es[x]]

\* NewCache(maxSize, defaultTTL): capacities and TTLs of the model
NGoroutines == 2
Goroutines == 1..NGoroutines
NCallers == 2
Callers == 1..NCallers

MaxSizeIn == {0, 1, 2}
defaultTTL == 2
shortTTL == 1
MaxTime == 2

NoValue == "none"

\* Cache.mutex unlocked
NoLock == [writer |-> 0, readers |-> [g \in Goroutines |-> 0], waiting |-> {}]
\* a goroutine outside every method
NoLocal == [op |-> "none", key |-> 0, observed |-> 0]

ConcIdle ==
  /\ mu = NoLock
  /\ gpc = [g \in Goroutines |-> "idle"]
  /\ local = [g \in Goroutines |-> NoLocal]

ManagerIdle ==
  /\ cleanupRunning = FALSE
  /\ cleanupMutex = 0
  /\ mpc = [c \in Callers |-> "idle"]
  /\ loops = <<>>
  /\ tentries = NoEntries

CacheIdle ==
  /\ entries = NoEntries
  /\ maxSize = 0
  /\ now = 0
  /\ written = [k \in Keys |-> NoValue]
  /\ distinct = TRUE
  /\ hashes = <<>>
  /\ ConcIdle
  /\ ManagerIdle

NoRet == [ok |-> TRUE, err |-> "", props |-> NoProps, region |-> RegionAuto,
          called |-> {}]
NoCall == [op |-> "none", t |-> Zero, p |-> Zero, ev |-> NoEv]

FileStates == {f \in [Tables -> {"good", "bad"}] :
                 \A t \in Tables \ {"region4", "b23"} : f[t] = "good"}

(***************************************************************************)
(* The loaders.  A loader tests its flag, reads the embedded file row by   *)
(* row into the package-level table and sets the flag; nothing orders the  *)
(* steps of two goroutines.                                                *)
(***************************************************************************)
NThreads == 2
NRows == 2

Threads == 1..NThreads
FileRows == [i \in 1..NRows |-> i]
Blank == [i \in 1..NRows |-> 0]

LoadIdle ==
  /\ rows = <<>>
  /\ rowsLoadedOnce = FALSE
  /\ n = <<>>
  /\ loaded = FALSE
  /\ lpc = [t \in Threads |-> "idle"]
  /\ li = [t \in Threads |-> 0]
  /\ got = [t \in Threads |-> "none"]

Init ==
  /\ files \in FileStates
  /\ pc = "idle"
  /\ call = NoCall
  /\ ret = NoRet
  /\ LoadIdle
  /\ CacheIdle

\* Calculator.determineRegion(T, p), T in K
DetermineRegion ==
  /\ pc = "idle"
  /\ \E tC \in TIn, p \in PIn :
       LET T == FAdd(tC, D(27315, -2))
       IN /\ call' = [op |-> "determineRegion", t |-> T, p |-> p, ev |-> NoEv]
          /\ ret' = [NoRet EXCEPT !.region = RegionFromTP(T, p)]
  /\ pc' = "done"
  /\ UNCHANGED <<files, loadVars, cacheVars>>

\* Calculator.Calculate(&InputData{Mode: "TP", Temperature: tC, Pressure: p})
CalculateTP ==
  /\ pc = "idle"
  /\ \E tC \in TIn, p \in PIn :
       \E ev \in Draws(RegionFromTP(FAdd(tC, D(27315, -2)), p), tC, p) :
         /\ call' = [op |-> "Calculate", t |-> tC, p |-> p, ev |-> ev]
         /\ ret' = CalculateTPResult(tC, p, ev)
  /\ pc' = "done"
  /\ UNCHANGED <<files, loadVars, cacheVars>>

Direct(r) == [ok |-> r.ok, err |-> r.err, props |-> r.props,
              region |-> RegionAuto, called |-> {}]

\* region1.Calculate(tC, p)
CallRegion1 ==
  /\ pc = "idle"
  /\ \E tC \in TIn, p \in PIn : \E ev \in Draws(Region1, tC, p) :
       /\ call' = [op |-> "region1", t |-> tC, p |-> p, ev |-> ev]
       /\ ret' = Direct(Region1Calculate(tC, p, ev.pot))
  /\ pc' = "done"
  /\ UNCHANGED <<files, loadVars, cacheVars>>

\* region2.Calculate(tC, p)
CallRegion2 ==
  /\ pc = "idle"
  /\ \E tC \in TIn, p \in PIn : \E ev \in Draws(Region2, tC, p) :
       /\ call' = [op |-> "region2", t |-> tC, p |-> p, ev |-> ev]
       /\ ret' = Direct(Region2Calculate(tC, p, ev.pot))
  /\ pc' = "done"
  /\ UNCHANGED <<files, loadVars, cacheVars>>

\* region3.Calculate(tC, p)
CallRegion3 ==
  /\ pc = "idle"
  /\ \E tC \in TIn, p \in PIn : \E ev \in Draws(Region3, tC, p) :
       /\ call' = [op |-> "region3", t |-> tC, p |-> p, ev |-> ev]
       /\ ret' = Direct(Region3Calculate(tC, p, ev.r3))
  /\ pc' = "done"
  /\ UNCHANGED <<files, loadVars, cacheVars>>

\* region5.Calculate(tC, p)
CallRegion5 ==
  /\ pc = "idle"
  /\ \E tC \in TIn, p \in PIn : \E ev \in Draws(Region5, tC, p) :
       /\ call' = [op |-> "region5", t |-> tC, p |-> p, ev |-> ev]
       /\ ret' = Direct(Region5Calculate(tC, p, ev.pot))
  /\ pc' = "done"
  /\ UNCHANGED <<files, loadVars, cacheVars>>

\* Calculator.Calculate(&InputData{Mode: "HS", Enthalpy: h, Entropy: s})
CalculateHS ==
  /\ pc = "idle"
  /\ \E h \in HIn, s \in SIn : \E d \in DrawsHS(h, s) :
       /\ call' = [op |-> "CalculateHS", h |-> h, s |-> s, ev |-> d]
       /\ ret' = CalculateHSResult(h, s, d)
  /\ pc' = "done"
  /\ UNCHANGED <<files, loadVars, cacheVars>>

\* (&InputData{Mode, Temperature, Pressure, Enthalpy, Entropy}).Validate()
ValidateInput ==
  /\ pc = "idle"
  /\ \E Mode \in Modes :
       \E tC \in (IF Mode = "HS" THEN {Zero} ELSE TIn \cup TEdge),
          p \in (IF Mode = "HS" THEN {Zero} ELSE PIn \cup PEdge),
          h \in (IF Mode = "HS" THEN HIn ELSE {Zero}),
          s \in (IF Mode = "HS" THEN SIn ELSE {Zero}) :
         /\ call' = [op |-> "Validate", mode |-> Mode, t |-> tC, p |-> p,
                     h |-> h, s |-> s, ev |-> NoEv]
         /\ ret' = [NoRet EXCEPT !.ok = Validate(Mode, tC, p, h, s) = "",
                                 !.err = Validate(Mode, tC, p, h, s)]
  /\ pc' = "done"
  /\ UNCHANGED <<files, loadVars, cacheVars>>

\* bracketAndBisect(f, a, b, maxIter, tol)
CallBracketAndBisect ==
  /\ pc = "idle"
  /\ \E f \in RootFuncs, ab \in BracketIn, maxIter \in MaxIterIn, tol \in TolIn :
       /\ call' = [op |-> "bracketAndBisect", f |-> f, a |-> ab[1], b |-> ab[2],
                   maxIter |-> maxIter, tol |-> tol]
       /\ ret' = bracketAndBisect(f, ab[1], ab[2], maxIter, tol)
  /\ pc' = "done"
  /\ UNCHANGED <<files, loadVars, cacheVars>>

\* the pressures of TestB23Roundtrip, MPa
B23PIn == {D(1, 0), D(5, 0), D(10, 0), D(20, 0)}
\* temperatures off the test: above n1, below the vertex of the parabola, NaN
B23TIn == {D(650, 0), D(86315, -2), D(10, 0), NaN}

\* bounds.B23P(TK), TK either B23T(from) as in TestB23Roundtrip or given
CallB23P ==
  /\ pc = "idle"
  /\ \E nn \in B23Tables :
       \E arg \in {[t |-> B23T(p).v, from |-> p] :
                     p \in (IF nn = B23Table THEN B23PIn ELSE {})}
                  \cup {[t |-> T, from |-> NaN] : T \in B23TIn} :
         /\ call' = [op |-> "B23P", n |-> nn, t |-> arg.t, from |-> arg.from]
         /\ ret' = B23PWith(nn, arg.t)
  /\ pc' = "done"
  /\ UNCHANGED <<files, loadVars, cacheVars>>

\* temperatures (K) inside, at the ends of and outside [273.16, 647.096]
SatTIn == {D(-10, 0), Zero, D(17315, -2), D(27316, -2), D(37315, -2),
           D(647096, -3), D(700, 0), NaN}
\* the pressures (Pa) of TestSaturationTemperature_EdgeCases, and NaN
SatPIn == {D(-1000, 0), Zero, D(100, 0), D(611657, -3), D(101325, 0),
           D(22064, 3), D(25, 6), NaN}

\* region4.SaturationPressure(T)
CallSaturationPressure ==
  /\ pc = "idle"
  /\ \E T \in SatTIn :
       /\ call' = [op |-> "SaturationPressure", t |-> T]
       /\ ret' = SaturationPressure(T)
  /\ pc' = "done"
  /\ UNCHANGED <<files, loadVars, cacheVars>>

\* region4.SaturationTemperature(p)
CallSaturationTemperature ==
  /\ pc = "idle"
  /\ \E p \in SatPIn :
       /\ call' = [op |-> "SaturationTemperature", p |-> p]
       /\ ret' = SaturationTemperature(p)
  /\ pc' = "done"
  /\ UNCHANGED <<files, loadVars, cacheVars>>

\* the temperatures (K) of TestSaturationRoundtrip
RoundtripTIn == {D(27316, -2), D(300, 0), D(37315, -2), D(450, 0), D(600, 0)}

\* TestSaturationRoundtrip: p := SaturationPressure(T), then
\* SaturationTemperature(p)
SaturationRoundtrip ==
  /\ pc = "idle"
  /\ \E T \in RoundtripTIn :
       /\ call' = [op |-> "SaturationRoundtrip", t |-> T]
       /\ ret' = IF PsatEq(T).ok
                 THEN [ok |-> TsatEq(PsatEq(T).v).ok, p |-> PsatEq(T).v,
                       v |-> TsatEq(PsatEq(T).v).v]
                 ELSE [ok |-> FALSE, p |-> Zero, v |-> Zero]
  /\ pc' = "done"
  /\ UNCHANGED <<files, loadVars, cacheVars>>

\* the caller takes the result and is ready for the next call
Return ==
  /\ pc = "done"
  /\ pc' = "idle"
  /\ call' = NoCall
  /\ ret' = NoRet
  /\ UNCHANGED <<files, loadVars, cacheVars>>

Next ==
  \/ DetermineRegion
  \/ CalculateTP
  \/ CallRegion1
  \/ CallRegion2
  \/ CallRegion3
  \/ CallRegion5
  \/ CalculateHS
  \/ ValidateInput
  \/ CallBracketAndBisect
  \/ CallB23P
  \/ CallSaturationPressure
  \/ CallSaturationTemperature
  \/ SaturationRoundtrip
  \/ Return

Spec == Init /\ [][Next]_vars

\* a goroutine enters region1.Calculate: loadRowsOnce tests the flag
RowsCheck(t) ==
  /\ lpc[t] = "idle"
  /\ lpc' = [lpc EXCEPT ![t] = IF rowsLoadedOnce THEN "rows_use" ELSE "rows_scan"]
  /\ li' = [li EXCEPT ![t] = 0]
  /\ UNCHANGED <<rows, rowsLoadedOnce, n, loaded, got, callVars, cacheVars>>

\* one pass of the scanner loop: rows = append(rows, row)
RowsAppend(t) ==
  /\ lpc[t] = "rows_scan"
  /\ li[t] < NRows
  /\ rows' = Append(rows, FileRows[li[t] + 1])
  /\ li' = [li EXCEPT ![t] = li[t] + 1]
  /\ UNCHANGED <<rowsLoadedOnce, n, loaded, lpc, got, callVars, cacheVars>>

\* rowsLoadedOnce = true
RowsPublish(t) ==
  /\ lpc[t] = "rows_scan"
  /\ li[t] = NRows
  /\ rowsLoadedOnce' = TRUE
  /\ lpc' = [lpc EXCEPT ![t] = "rows_use"]
  /\ UNCHANGED <<rows, n, loaded, li, got, callVars, cacheVars>>

\* the series are summed over rows
RowsUse(t) ==
  /\ lpc[t] = "rows_use"
  /\ got' = [got EXCEPT ![t] = IF rows = FileRows THEN "table" ELSE "other"]
  /\ lpc' = [lpc EXCEPT ![t] = "idle"]
  /\ UNCHANGED <<rows, rowsLoadedOnce, n, loaded, li, callVars, cacheVars>>

\* a goroutine enters bounds.B23T: loadOnce tests the flag
B23Check(t) ==
  /\ lpc[t] = "idle"
  /\ lpc' = [lpc EXCEPT ![t] = IF loaded THEN "b23_use" ELSE "b23_make"]
  /\ li' = [li EXCEPT ![t] = 0]
  /\ UNCHANGED <<rows, rowsLoadedOnce, n, loaded, got, callVars, cacheVars>>

\* n = make([]float64, 6)
B23Make(t) ==
  /\ lpc[t] = "b23_make"
  /\ n' = Blank
  /\ lpc' = [lpc EXCEPT ![t] = "b23_scan"]
  /\ UNCHANGED <<rows, rowsLoadedOnce, loaded, li, got, callVars, cacheVars>>

\* one pass of the scanner loop: n[idx] = val
B23Store(t) ==
  /\ lpc[t] = "b23_scan"
  /\ li[t] < NRows
  /\ n' = [n EXCEPT ![li[t] + 1] = FileRows[li[t] + 1]]
  /\ li' = [li EXCEPT ![t] = li[t] + 1]
  /\ UNCHANGED <<rows, rowsLoadedOnce, loaded, lpc, got, callVars, cacheVars>>

\* loaded = true
B23Publish(t) ==
  /\ lpc[t] = "b23_scan"
  /\ li[t] = NRows
  /\ loaded' = TRUE
  /\ lpc' = [lpc EXCEPT ![t] = "b23_use"]
  /\ UNCHANGED <<rows, rowsLoadedOnce, n, li, got, callVars, cacheVars>>

\* T := n[1] + n[2]*pMPa + n[3]*pMPa*pMPa
B23Use(t) ==
  /\ lpc[t] = "b23_use"
  /\ got' = [got EXCEPT ![t] = IF n = FileRows THEN "table" ELSE "other"]
  /\ lpc' = [lpc EXCEPT ![t] = "idle"]
  /\ UNCHANGED <<rows, rowsLoadedOnce, n, loaded, li, callVars, cacheVars>>

InitLoad ==
  /\ files = [t \in Tables |-> "good"]
  /\ pc = "idle"
  /\ call = NoCall
  /\ ret = NoRet
  /\ LoadIdle
  /\ CacheIdle

NextLoad ==
  \/ \E t \in Threads : RowsCheck(t)
  \/ \E t \in Threads : RowsAppend(t)
  \/ \E t \in Threads : RowsPublish(t)
  \/ \E t \in Threads : RowsUse(t)
  \/ \E t \in Threads : B23Check(t)
  \/ \E t \in Threads : B23Make(t)
  \/ \E t \in Threads : B23Store(t)
  \/ \E t \in Threads : B23Publish(t)
  \/ \E t \in Threads : B23Use(t)

SpecLoad == InitLoad /\ [][NextLoad]_vars


(***************************************************************************)
(* The cache, one caller: every method runs from Lock to Unlock before the *)
(* next one starts.  call and ret hold the last method and its result.     *)
(***************************************************************************)
InitCache ==
  /\ files = [t \in Tables |-> "good"]
  /\ pc = "idle"
  /\ call = NoCall
  /\ ret = NoRet
  /\ LoadIdle
  /\ entries = NoEntries
  /\ maxSize \in MaxSizeIn
  /\ now = 0
  /\ written = [k \in Keys |-> NoValue]
  /\ distinct = TRUE
  /\ hashes = [k \in Keys |-> hashKey(k)]
  /\ ConcIdle
  /\ ManagerIdle

\* c.Set(key, value): c.SetWithTTL(key, value, c.defaultTTL)
CacheSet ==
  \E key \in Keys, value \in Values :
    /\ entries' \in SetWithTTLTo(entries, maxSize, key, value, defaultTTL, now)
    /\ call' = [op |-> "Set", key |-> key]
    /\ ret' = NoRet
    /\ written' = [written EXCEPT ![key] = value]
    /\ distinct' = (distinct /\ written[key] = NoValue)
    /\ UNCHANGED <<files, pc, loadVars, maxSize, now, hashes, concVars, mgrVars>>

\* c.SetWithTTL(key, value, ttl)
CacheSetWithTTL ==
  \E key \in Keys, value \in Values :
    /\ entries' \in SetWithTTLTo(entries, maxSize, key, value, shortTTL, now)
    /\ call' = [op |-> "SetWithTTL", key |-> key]
    /\ ret' = NoRet
    /\ written' = [written EXCEPT ![key] = value]
    /\ distinct' = (distinct /\ written[key] = NoValue)
    /\ UNCHANGED <<files, pc, loadVars, maxSize, now, hashes, concVars, mgrVars>>

\* c.Get(key)
CacheGet ==
  \E key \in Keys :
    /\ entries' = GetFrom(entries, key, now).entries
    /\ call' = [op |-> "Get", key |-> key]
    /\ ret' = [found |-> GetFrom(entries, key, now).found,
               value |-> GetFrom(entries, key, now).value]
    /\ UNCHANGED <<files, pc, loadVars, maxSize, now, written, distinct, hashes,
               concVars, mgrVars>>

\* c.Cleanup()
CacheCleanup ==
  /\ entries' = CleanupAt(entries, now)
  /\ call' = [op |-> "Cleanup"]
  /\ ret' = NoRet
  /\ UNCHANGED <<files, pc, loadVars, maxSize, now, written, distinct, hashes,
               concVars, mgrVars>>

\* c.Clear()
CacheClear ==
  /\ entries' = NoEntries
  /\ call' = [op |-> "Clear"]
  /\ ret' = NoRet
  /\ written' = [k \in Keys |-> NoValue]
  /\ distinct' = TRUE
  /\ UNCHANGED <<files, pc, loadVars, maxSize, now, hashes, concVars, mgrVars>>

\* c.Size()
CacheSize ==
  /\ call' = [op |-> "Size"]
  /\ ret' = [size |-> Cardinality(DOMAIN entries)]
  /\ UNCHANGED <<files, pc, loadVars, cacheVars>>

\* time passes
Tick ==
  /\ now < MaxTime
  /\ now' = now + 1
  /\ UNCHANGED <<callVars, loadVars, entries, maxSize, written, distinct, hashes,
               concVars, mgrVars>>

NextCache ==
  \/ CacheSet
  \/ CacheSetWithTTL
  \/ CacheGet
  \/ CacheCleanup
  \/ CacheClear
  \/ CacheSize
  \/ Tick

SpecCache == InitCache /\ [][NextCache]_vars

(***************************************************************************)
(* The cache, concurrent callers.  Each goroutine runs Get or SetWithTTL   *)
(* one statement at a time; Cache.mutex is a sync.RWMutex: RLock waits     *)
(* while a writer holds the lock or is blocked in Lock, Lock waits for the *)
(* writer and every reader to leave.                                       *)
(***************************************************************************)
CanRLock == mu.writer = 0 /\ mu.waiting = {}
CanLock(g) == g \in mu.waiting /\ mu.writer = 0 /\ \A r \in Goroutines : mu.readers[r] = 0
RLocked(g) == [mu EXCEPT !.readers[g] = @ + 1]
RUnlocked(g) == [mu EXCEPT !.readers[g] = @ - 1]
LockWanted(g) == [mu EXCEPT !.waiting = @ \cup {g}]
Locked(g) == [mu EXCEPT !.writer = g, !.waiting = @ \ {g}]
Unlocked == [mu EXCEPT !.writer = 0]

InitConc ==
  /\ files = [t \in Tables |-> "good"]
  /\ pc = "idle"
  /\ call = NoCall
  /\ ret = NoRet
  /\ LoadIdle
  /\ entries = NoEntries
  /\ maxSize \in MaxSizeIn
  /\ now = 0
  /\ written = [k \in Keys |-> NoValue]
  /\ distinct = TRUE
  /\ hashes = [k \in Keys |-> hashKey(k)]
  /\ ConcIdle
  /\ ManagerIdle

concFixed == <<callVars, loadVars, maxSize, written, distinct, hashes, mgrVars>>

\* Get(key): c.mutex.RLock(); defer c.mutex.RUnlock()
GetRLock(g) ==
  /\ gpc[g] = "idle"
  /\ CanRLock
  /\ \E key \in Keys : local' = [local EXCEPT ![g] = [op |-> "Get", key |-> key,
                                                       observed |-> 0]]
  /\ mu' = RLocked(g)
  /\ gpc' = [gpc EXCEPT ![g] = "get_lookup"]
  /\ UNCHANGED <<entries, now, concFixed>>

\* entry, exists := c.entries[hash]; if !exists ...; if time.Since(...) > entry.TTL
GetLookup(g) ==
  /\ gpc[g] = "get_lookup"
  /\ LET hash == hashes[local[g].key]
     IN IF hash \in DOMAIN entries /\ Expired(entries[hash], now)
        THEN /\ local' = [local EXCEPT ![g].observed = entries[hash]]
             /\ gpc' = [gpc EXCEPT ![g] = "get_runlock"]
        ELSE /\ local' = local
             /\ gpc' = [gpc EXCEPT ![g] = "get_return"]
  /\ UNCHANGED <<entries, now, mu, concFixed>>

\* c.mutex.RUnlock()
GetRUnlock(g) ==
  /\ gpc[g] = "get_runlock"
  /\ mu' = RUnlocked(g)
  /\ gpc' = [gpc EXCEPT ![g] = "get_lock"]
  /\ UNCHANGED <<entries, now, local, concFixed>>

\* c.mutex.Lock() is called
GetLock(g) ==
  /\ gpc[g] = "get_lock"
  /\ mu' = LockWanted(g)
  /\ gpc' = [gpc EXCEPT ![g] = "get_locking"]
  /\ UNCHANGED <<entries, now, local, concFixed>>

\* c.mutex.Lock() returns
GetLocked(g) ==
  /\ gpc[g] = "get_locking"
  /\ CanLock(g)
  /\ mu' = Locked(g)
  /\ gpc' = [gpc EXCEPT ![g] = "get_delete"]
  /\ UNCHANGED <<entries, now, local, concFixed>>

\* delete(c.entries, hash)
GetDelete(g) ==
  /\ gpc[g] = "get_delete"
  /\ entries' = Delete(entries, hashes[local[g].key])
  /\ gpc' = [gpc EXCEPT ![g] = "get_unlock"]
  /\ UNCHANGED <<now, mu, local, concFixed>>

\* c.mutex.Unlock()
GetUnlock(g) ==
  /\ gpc[g] = "get_unlock"
  /\ mu' = Unlocked
  /\ gpc' = [gpc EXCEPT ![g] = "get_rlock"]
  /\ UNCHANGED <<entries, now, local, concFixed>>

\* c.mutex.RLock(), for the deferred RUnlock
GetRLockAgain(g) ==
  /\ gpc[g] = "get_rlock"
  /\ CanRLock
  /\ mu' = RLocked(g)
  /\ gpc' = [gpc EXCEPT ![g] = "get_return"]
  /\ UNCHANGED <<entries, now, local, concFixed>>

\* return: the deferred c.mutex.RUnlock() runs
GetReturn(g) ==
  /\ gpc[g] = "get_return"
  /\ mu' = RUnlocked(g)
  /\ gpc' = [gpc EXCEPT ![g] = "idle"]
  /\ local' = [local EXCEPT ![g] = NoLocal]
  /\ UNCHANGED <<entries, now, concFixed>>

\* Set(key, value): SetWithTTL(key, value, c.defaultTTL) calls c.mutex.Lock()
SetLock(g) ==
  /\ gpc[g] = "idle"
  /\ \E key \in Keys : local' = [local EXCEPT ![g] = [op |-> "Set", key |-> key,
                                                       observed |-> 0]]
  /\ mu' = LockWanted(g)
  /\ gpc' = [gpc EXCEPT ![g] = "set_locking"]
  /\ UNCHANGED <<entries, now, concFixed>>

\* SetWithTTL(key, value, ttl) calls c.mutex.Lock()
SetWithTTLLock(g) ==
  /\ gpc[g] = "idle"
  /\ \E key \in Keys : local' = [local EXCEPT ![g] = [op |-> "SetWithTTL",
                                                       key |-> key, observed |-> 0]]
  /\ mu' = LockWanted(g)
  /\ gpc' = [gpc EXCEPT ![g] = "set_locking"]
  /\ UNCHANGED <<entries, now, concFixed>>

\* c.mutex.Lock() returns
SetLocked(g) ==
  /\ gpc[g] = "set_locking"
  /\ CanLock(g)
  /\ mu' = Locked(g)
  /\ gpc' = [gpc EXCEPT ![g] = "set_store"]
  /\ UNCHANGED <<entries, now, local, concFixed>>

\* the body of SetWithTTL under the lock; the value argument is drawn here,
\* where it is first used
SetStore(g) ==
  /\ gpc[g] = "set_store"
  /\ \E value \in Values :
       entries' \in SetWithTTLTo(entries, maxSize, local[g].key, value,
                                 IF local[g].op = "Set" THEN defaultTTL ELSE shortTTL,
                                 now)
  /\ gpc' = [gpc EXCEPT ![g] = "set_unlock"]
  /\ UNCHANGED <<now, mu, local, concFixed>>

\* the deferred c.mutex.Unlock() runs
SetUnlock(g) ==
  /\ gpc[g] = "set_unlock"
  /\ mu' = Unlocked
  /\ gpc' = [gpc EXCEPT ![g] = "idle"]
  /\ local' = [local EXCEPT ![g] = NoLocal]
  /\ UNCHANGED <<entries, now, concFixed>>

\* time passes between two statements
ConcTick ==
  /\ now < MaxTime
  /\ now' = now + 1
  /\ UNCHANGED <<entries, concVars, concFixed>>

NextConc ==
  \/ \E g \in Goroutines : GetRLock(g)
  \/ \E g \in Goroutines : GetLookup(g)
  \/ \E g \in Goroutines : GetRUnlock(g)
  \/ \E g \in Goroutines : GetLock(g)
  \/ \E g \in Goroutines : GetLocked(g)
  \/ \E g \in Goroutines : GetDelete(g)
  \/ \E g \in Goroutines : GetUnlock(g)
  \/ \E g \in Goroutines : GetRLockAgain(g)
  \/ \E g \in Goroutines : GetReturn(g)
  \/ \E g \in Goroutines : SetLock(g)
  \/ \E g \in Goroutines : SetWithTTLLock(g)
  \/ \E g \in Goroutines : SetLocked(g)
  \/ \E g \in Goroutines : SetStore(g)
  \/ \E g \in Goroutines : SetUnlock(g)
  \/ ConcTick

SpecConc == InitConc /\ [][NextConc]_vars

(***************************************************************************)
(* The CacheManager.  Callers run StartCleanup and StopCleanup statement   *)
(* by statement; cleanupMutex is a sync.Mutex, stopCleanup an unbuffered   *)
(* channel: the send of StopCleanup and the receive of a cleanupLoop in    *)
(* its select are one step.  As in TestCacheManager_Cleanup, entries are   *)
(* stored into the properties cache meanwhile, and the clock advances.     *)
(***************************************************************************)
MaxLoops == 2
\* NewCacheManager(100, 100) of TestCacheManager: room for every key used
managerSize == Cardinality(Keys)
\* NewPropertiesCache: the default TTL of 5 minutes, in units of the clock
propertiesTTL == 1
\* pc.Set(200.0, 1e6, "region1", "test_properties") of TestCacheManager_Cleanup
managerKey == CacheKey(D(200, 0), D(1, 6), region1Str)
managerValue == "value1"

\* a cleanupLoop that can still run Cleanup
ActiveLoops == {i \in DOMAIN loops : loops[i] \in {"start", "select", "cleanup"}}
Starting == {c \in Callers : mpc[c] \in {"start_lock", "start_body"}}

InitManager ==
  /\ files = [t \in Tables |-> "good"]
  /\ pc = "idle"
  /\ call = NoCall
  /\ ret = NoRet
  /\ LoadIdle
  /\ entries = NoEntries
  /\ maxSize = managerSize
  /\ now = 0
  /\ written = [k \in Keys |-> NoValue]
  /\ distinct = TRUE
  /\ hashes = [k \in Keys |-> hashKey(k)]
  /\ ConcIdle
  /\ ManagerIdle

mgrFixed == <<callVars, loadVars, maxSize, written, distinct, hashes, concVars>>

\* StartCleanup() is called: cm.cleanupMutex.Lock() is next
StartCall(c) ==
  /\ mpc[c] = "idle"
  /\ Len(loops) + Cardinality(Starting) < MaxLoops
  /\ mpc' = [mpc EXCEPT ![c] = "start_lock"]
  /\ UNCHANGED <<cleanupRunning, cleanupMutex, loops, tentries, entries, now, mgrFixed>>

\* cm.cleanupMutex.Lock() returns
StartLock(c) ==
  /\ mpc[c] = "start_lock"
  /\ cleanupMutex = 0
  /\ cleanupMutex' = c
  /\ mpc' = [mpc EXCEPT ![c] = "start_body"]
  /\ UNCHANGED <<cleanupRunning, loops, tentries, entries, now, mgrFixed>>

\* if cm.cleanupRunning { return }; cm.cleanupRunning = true; go cm.cleanupLoop()
StartBody(c) ==
  /\ mpc[c] = "start_body"
  /\ IF cleanupRunning
     THEN UNCHANGED <<cleanupRunning, loops>>
     ELSE /\ cleanupRunning' = TRUE
          /\ loops' = Append(loops, "start")
  /\ mpc' = [mpc EXCEPT ![c] = "start_unlock"]
  /\ UNCHANGED <<cleanupMutex, tentries, entries, now, mgrFixed>>

\* the deferred cm.cleanupMutex.Unlock() runs, StartCleanup returns
StartUnlock(c) ==
  /\ mpc[c] = "start_unlock"
  /\ cleanupMutex' = 0
  /\ mpc' = [mpc EXCEPT ![c] = "idle"]
  /\ UNCHANGED <<cleanupRunning, loops, tentries, entries, now, mgrFixed>>

\* StopCleanup() is called: cm.cleanupMutex.Lock() is next
StopCall(c) ==
  /\ mpc[c] = "idle"
  /\ mpc' = [mpc EXCEPT ![c] = "stop_lock"]
  /\ UNCHANGED <<cleanupRunning, cleanupMutex, loops, tentries, entries, now, mgrFixed>>

\* cm.cleanupMutex.Lock() returns
StopLock(c) ==
  /\ mpc[c] = "stop_lock"
  /\ cleanupMutex = 0
  /\ cleanupMutex' = c
  /\ mpc' = [mpc EXCEPT ![c] = "stop_body"]
  /\ UNCHANGED <<cleanupRunning, loops, tentries, entries, now, mgrFixed>>

\* if !cm.cleanupRunning { return }
StopBody(c) ==
  /\ mpc[c] = "stop_body"
  /\ mpc' = [mpc EXCEPT ![c] = IF cleanupRunning THEN "stop_send" ELSE "stop_unlock"]
  /\ UNCHANGED <<cleanupRunning, cleanupMutex, loops, tentries, entries, now, mgrFixed>>

\* a variant of StopSend that does not wait for a receiver
StopSend_Buffered(c) ==
  /\ mpc[c] = "stop_send"
  /\ mpc' = [mpc EXCEPT ![c] = "stop_clear"]
  /\ UNCHANGED <<cleanupRunning, cleanupMutex, loops, tentries, entries, now, mgrFixed>>

\* cm.stopCleanup <- true, received by case <-cm.stopCleanup: return
StopSend(c) ==
  /\ mpc[c] = "stop_send"
  /\ \E i \in DOMAIN loops :
       /\ loops[i] = "select"
       /\ loops' = [loops EXCEPT ![i] = "returning"]
  /\ mpc' = [mpc EXCEPT ![c] = "stop_clear"]
  /\ UNCHANGED <<cleanupRunning, cleanupMutex, tentries, entries, now, mgrFixed>>

\* cm.cleanupRunning = false
StopClear(c) ==
  /\ mpc[c] = "stop_clear"
  /\ cleanupRunning' = FALSE
  /\ mpc' = [mpc EXCEPT ![c] = "stop_unlock"]
  /\ UNCHANGED <<cleanupMutex, loops, tentries, entries, now, mgrFixed>>

\* the deferred cm.cleanupMutex.Unlock() runs, StopCleanup returns
StopUnlock(c) ==
  /\ mpc[c] = "stop_unlock"
  /\ cleanupMutex' = 0
  /\ mpc' = [mpc EXCEPT ![c] = "idle"]
  /\ UNCHANGED <<cleanupRunning, loops, tentries, entries, now, mgrFixed>>

\* the new goroutine runs: ticker := time.NewTicker(cm.cleanupInterval)
LoopStart(i) ==
  /\ i \in DOMAIN loops
  /\ loops[i] = "start"
  /\ loops' = [loops EXCEPT ![i] = "select"]
  /\ UNCHANGED <<cleanupRunning, cleanupMutex, mpc, tentries, entries, now, mgrFixed>>

\* case <-ticker.C
LoopTick(i) ==
  /\ i \in DOMAIN loops
  /\ loops[i] = "select"
  /\ loops' = [loops EXCEPT ![i] = "cleanup"]
  /\ UNCHANGED <<cleanupRunning, cleanupMutex, mpc, tentries, entries, now, mgrFixed>>

\* cm.propertiesCache.Cleanup(); cm.transportCache.Cleanup()
LoopCleanup(i) ==
  /\ i \in DOMAIN loops
  /\ loops[i] = "cleanup"
  /\ entries' = CleanupAt(entries, now)
  /\ tentries' = CleanupAt(tentries, now)
  /\ loops' = [loops EXCEPT ![i] = "select"]
  /\ UNCHANGED <<cleanupRunning, cleanupMutex, mpc, now, mgrFixed>>

\* return: the deferred ticker.Stop() runs and the goroutine ends
LoopReturn(i) ==
  /\ i \in DOMAIN loops
  /\ loops[i] = "returning"
  /\ loops' = [loops EXCEPT ![i] = "exited"]
  /\ UNCHANGED <<cleanupRunning, cleanupMutex, mpc, tentries, entries, now, mgrFixed>>

\* cm.GetPropertiesCache().Set(T, P, region, properties)
PropertiesSet ==
  /\ entries' \in SetWithTTLTo(entries, maxSize, managerKey, managerValue,
                              propertiesTTL, now)
  /\ UNCHANGED <<mgrVars, now, mgrFixed>>

NextManager ==
  \/ \E c \in Callers : StartCall(c)
  \/ \E c \in Callers : StartLock(c)
  \/ \E c \in Callers : StartBody(c)
  \/ \E c \in Callers : StartUnlock(c)
  \/ \E c \in Callers : StopCall(c)
  \/ \E c \in Callers : StopLock(c)
  \/ \E c \in Callers : StopBody(c)
  \/ \E c \in Callers : StopSend(c)
  \/ \E c \in Callers : StopClear(c)
  \/ \E c \in Callers : StopUnlock(c)
  \/ \E i \in 1..MaxLoops : LoopStart(i)
  \/ \E i \in 1..MaxLoops : LoopTick(i)
  \/ \E i \in 1..MaxLoops : LoopCleanup(i)
  \/ \E i \in 1..MaxLoops : LoopReturn(i)
  \/ PropertiesSet
  \/ Tick

SpecManager == InitManager /\ [][NextManager]_vars

(***************************************************************************)
(* Scheduling.  The Go scheduler runs every runnable goroutine, so a step  *)
(* that stays enabled is taken (WF).  A sync.Mutex hands the lock to a     *)
(* waiter that keeps losing it (starvation mode), and select takes a ready *)
(* case at random, so a Lock that is enabled again and again returns and a *)
(* send that meets the loop in its select again and again is received      *)
(* (SF).  Only the holder of cleanupMutex is past its Lock, so the steps   *)
(* after Lock are one caller's at a time.  Nothing obliges a caller to     *)
(* call, the ticker to fire or the clock to advance.                       *)
(***************************************************************************)
FairManager ==
  /\ \A c \in Callers : SF_vars(StartLock(c) \/ StopLock(c))
  /\ WF_vars(\E c \in Callers : \/ StartBody(c) \/ StartUnlock(c) \/ StopBody(c)
                                \/ StopClear(c) \/ StopUnlock(c))
  /\ SF_vars(\E c \in Callers : StopSend(c))
  /\ \A i \in 1..MaxLoops :
       WF_vars(LoopStart(i) \/ LoopCleanup(i) \/ LoopReturn(i))

SpecManagerFair == SpecManager /\ FairManager

(***************************************************************************)
(* Properties                                                              *)
(***************************************************************************)
Done(op) == pc = "done" /\ call.op = op
AllGood == \A t \in Tables : files[t] = "good"
Kelvin(tC) == FAdd(tC, D(27315, -2))

\* a and b agree up to the rounding of arithmetic on operands of size scale
CloseAt(a, b, scale) == FLe(FAbs(FSub(a, b)), FMul(D(1, -4), scale))
Close(a, b) == CloseAt(a, b, FAdd(FAbs(a), FAbs(b)))

Positive(pr) ==
  /\ FGt(pr.v, Zero) /\ FGt(pr.ro, Zero) /\ FGt(pr.cp, Zero)
  /\ FGt(pr.cv, Zero) /\ FGt(pr.w, Zero)

RegionCalls == {"region1", "region2", "region3", "region5"}

\* C1: RegionFromTP is total and returns one of Region1, Region2, Region3,
\* Region5 - never Region4, never RegionAuto - whether the saturation and B23
\* sub-computations succeed or fail; the TP dispatcher therefore always calls
\* exactly one region calculator.
C1_ClassifierTotal ==
  /\ Done("determineRegion") => ret.region \in {Region1, Region2, Region3, Region5}
  /\ Done("Calculate") =>
       \E r \in {Region1, Region2, Region3, Region5} : ret.called = {r}

\* both sub-computations failed and the pressure fallback decided
C1_Witness ==
  /\ Done("determineRegion")
  /\ files["region4"] = "bad" /\ files["b23"] = "bad"
  /\ call.t = D(29315, -2) /\ call.p = D(25, 6)
  /\ ret.region = Region3

\* the reference decision of the classifier
Reference(T, p) ==
  IF FGt(T, D(107315, -2)) THEN Region5
  ELSE IF FLt(T, D(647096, -3))
       THEN (IF FGe(p, SaturationPressure(T).v) THEN Region1 ELSE Region2)
       ELSE (IF FGe(T, B23T(FDiv(p, D(1, 6))).v) THEN Region2 ELSE Region3)

OutsideEnvelope(tC, p) ==
  \/ NonFinite(tC) \/ NonFinite(p)
  \/ FLt(tC, D(-27315, -2)) \/ FGt(tC, D(2000, 0))
  \/ FLt(p, D(611657, -3)) \/ FGt(p, D(100, 6))

\* C3 as stated: Calculate in TP mode answers an input outside the envelope
\* with an error and calls no region calculator.
C3_Claim ==
  (Done("Calculate") /\ OutsideEnvelope(call.t, call.p))
  => (~ret.ok /\ ret.called = {})

\* C4 as stated: every successful return of a region calculator or of the TP
\* dispatch carries eight finite properties with v, rho, cp, cv, w positive.
C4_Claim ==
  (pc = "done" /\ call.op \in RegionCalls \cup {"Calculate"} /\ ret.ok)
  => (finiteAll(ret.props) /\ Positive(ret.props))

\* C6 as stated: rho * v = 1 in every successful Properties record.
C6_Claim ==
  (pc = "done" /\ call.op \in RegionCalls \cup {"Calculate"} /\ ret.ok)
  => Close(FMul(ret.props.ro, ret.props.v), D(1, 0))

\* C7 as stated: h - u = p * v / 1000 in every successful Properties record.
C7_Claim ==
  (pc = "done" /\ call.op \in RegionCalls \cup {"Calculate"} /\ ret.ok)
  => CloseAt(FSub(ret.props.h, ret.props.u),
             FDiv(FMul(call.p, ret.props.v), D(1000, 0)),
             FAdd(FAbs(ret.props.h), FAbs(ret.props.u)))

\* (g_pi - tau g_pi_tau)^2 / g_pi_pi at the state of the last call
NonIdealTerm(referT) ==
  LET tau == FDiv(referT, Kelvin(call.t))
      q == call.ev.pot
  IN FDiv(Sq(FSub(q.gPi, FMul(tau, q.gPiTau))), q.gPiPi)

\* C8 as stated, for the validated Gibbs regions 1 and 2: cp >= cv, and
\* cp > cv where the term (g_pi - tau g_pi_tau)^2 / g_pi_pi is not zero.
C8_Claim ==
  /\ (Done("region1") /\ ret.ok) =>
       /\ FGe(ret.props.cp, ret.props.cv)
       /\ ~IsZero(NonIdealTerm(D(1386, 0))) => FGt(ret.props.cp, ret.props.cv)
  /\ (Done("region2") /\ ret.ok) =>
       /\ FGe(ret.props.cp, ret.props.cv)
       /\ ~IsZero(NonIdealTerm(D(540, 0))) => FGt(ret.props.cp, ret.props.cv)

\* C9 as stated: the TP query at 650 K, 25 MPa is classified Region 3 and
\* returns successfully with the tag Region3 and positive properties.
C9_Claim ==
  (Done("Calculate") /\ AllGood /\ call.t = D(37685, -2) /\ call.p = D(25, 6))
  => (ret.ok /\ ret.region = Region3 /\ ret.called = {Region3}
      /\ Positive(ret.props))

AboveSaturation(tC, p) ==
  /\ FLt(Kelvin(tC), D(647096, -3))
  /\ SaturationPressure(Kelvin(tC)).ok
  /\ FGt(p, SaturationPressure(Kelvin(tC)).v)

\* C10 as stated: the TP query at 100 C, 500000 Pa is answered with the
\* Region 2 applicability error.
C10_Claim ==
  (Done("Calculate") /\ AllGood /\ call.t = D(100, 0) /\ call.p = D(500000, 0))
  => (~ret.ok /\ ret.err = "Region 2 not applicable: p > psat")

\* C10, amended: a TP query with T < 647.096 K and p above psat(T) is
\* classified Region 1 and handed to region1.Calculate, and the TP dispatch
\* never returns the Region 2 applicability error; that error is what
\* region2.Calculate returns when it is called directly with such a state
\* (273.15 K <= T, p <= 100 MPa).
C10_Amended ==
  /\ Done("Calculate") => ret.err # "Region 2 not applicable: p > psat"
  /\ (Done("Calculate") /\ AboveSaturation(call.t, call.p)) =>
       ret.called = {Region1}
  /\ (/\ Done("region2") /\ AboveSaturation(call.t, call.p)
      /\ FGe(Kelvin(call.t), D(27315, -2)) /\ FLe(call.p, D(100, 6))) =>
       (~ret.ok /\ ret.err = "Region 2 not applicable: p > psat")

\* 100 C, 500000 Pa went to region1.Calculate
C10_Witness ==
  /\ Done("Calculate")
  /\ AllGood
  /\ call.t = D(100, 0) /\ call.p = D(500000, 0)
  /\ AboveSaturation(call.t, call.p)
  /\ ret.called = {Region1}

\* C5 as stated: whenever a loader's flag is true its table holds exactly
\* one copy of the rows of the file, under every interleaving of the first
\* callers.
C5_Claim ==
  /\ rowsLoadedOnce => rows = FileRows
  /\ loaded => n = FileRows

\* C11: in HS mode only the Region 3 backward relations are consulted: no
\* region calculator is called; a failure of region3.PropertiesFromHS gives no
\* result and an error carrying guessRegionFromHS(h, s); a success is tagged
\* Region3.
C11_HSOnlyRegion3 ==
  Done("CalculateHS") =>
    /\ ret.called = {}
    /\ ~ret.ok => /\ ret.props = NoProps
                  /\ ret.err = "h,s calculation error"
                  /\ ret.guess = guessRegionFromHS(call.h, call.s)
    /\ ret.ok => ret.region = Region3

\* h = 2600, s = 5.5 passes the range checks, the 3b pressure series gives a
\* negative pressure, and the error carries the guess Region2
C11_Witness ==
  /\ Done("CalculateHS")
  /\ call.h = D(2600, 0) /\ call.s = D(55, -1)
  /\ validateHS(call.h, call.s) = ""
  /\ ~ret.ok
  /\ ret.guess = Region2

\* C12 as stated: an (h, s) input whose heuristic region is Region 1 or
\* Region 2 is refused with an error tagged with that region and never
\* answered with a Properties result.
C12_Claim ==
  (Done("CalculateHS") /\ guessRegionFromHS(call.h, call.s) \in {Region1, Region2})
  => (~ret.ok /\ ret.guess = guessRegionFromHS(call.h, call.s))

\* C13 as stated: when the saturation-pressure computation fails for an input
\* with 0 < T < 647.096 K and a finite p > 0, RegionFromTP returns Region3 at p >= 16.5292 MPa and
\* Region2 below it.
C13_Claim ==
  (/\ Done("determineRegion")
   /\ ~NonFinite(call.p) /\ FGt(call.p, Zero)
   /\ FGt(call.t, Zero) /\ FLt(call.t, D(647096, -3))
   /\ ~SaturationPressure(call.t).ok)
  => ret.region = (IF FGe(call.p, D(165292, 2)) THEN Region3 ELSE Region2)

\* the Region 1 envelope: 273.15 K <= T <= 623.15 K, psat(T) <= p <= 100 MPa
InsideRegion1(tC, p) ==
  /\ FGe(Kelvin(tC), D(27315, -2)) /\ FLe(Kelvin(tC), D(62315, -2))
  /\ FLe(p, D(100, 6))
  /\ SaturationPressure(Kelvin(tC)).ok
  /\ FGe(p, SaturationPressure(Kelvin(tC)).v)

\* C14 as stated: region1.Calculate answers every input outside the Region 1
\* envelope with an error, never with a Properties record.
C14_Claim ==
  (Done("region1") /\ ~InsideRegion1(call.t, call.p)) => ~ret.ok

\* C15 as stated: in TP mode Validate returns nil exactly when T and p are
\* finite, -273.15 C <= T <= 2000 C and 611.657 Pa <= p <= 100 MPa; a Mode
\* other than "TP" or "HS" is an error.
C15_Claim ==
  /\ (Done("Validate") /\ call.mode = "TP") => (ret.ok <=> ~OutsideEnvelope(call.t, call.p))
  /\ (Done("Validate") /\ call.mode \notin {"TP", "HS"}) => ~ret.ok

\* C15, amended: in TP mode Validate returns nil exactly when T and p are
\* finite, -0.01 C <= T <= 2000 C and 611.657 Pa <= p <= 100 MPa; a Mode
\* other than "TP" or "HS" is an error.
C15_Amended ==
  /\ (Done("Validate") /\ call.mode = "TP") =>
       (ret.ok <=> (/\ ~NonFinite(call.t) /\ ~NonFinite(call.p)
                    /\ FGe(call.t, D(-1, -2)) /\ FLe(call.t, D(2000, 0))
                    /\ FGe(call.p, D(611657, -3)) /\ FLe(call.p, D(100, 6))))
  /\ (Done("Validate") /\ call.mode \notin {"TP", "HS"}) => ~ret.ok

\* -100 C at 101325 Pa lies inside the envelope of the specification and is
\* rejected
C15_Witness ==
  /\ Done("Validate") /\ call.mode = "TP"
  /\ call.t = D(-100, 0) /\ call.p = D(101325, 0)
  /\ ~OutsideEnvelope(call.t, call.p)
  /\ ~ret.ok

ShowsChange(k) ==
  /\ Apply(call.f, GridX(call.a, call.b, k - 1)).ok
  /\ Apply(call.f, GridX(call.a, call.b, k)).ok
  /\ ProdNonPos(Apply(call.f, GridX(call.a, call.b, k - 1)),
                Apply(call.f, GridX(call.a, call.b, k)))

\* the value returned lies in the first sub-interval that shows a sign change
InFirstChange ==
  \E k \in 1..scanN :
    /\ ShowsChange(k)
    /\ \A j \in 1..(k - 1) : ~ShowsChange(j)
    /\ GridX(call.a, call.b, k - 1) <= ret.x /\ ret.x <= GridX(call.a, call.b, k)

SameSignEnds ==
  ProdPos(Apply(call.f, call.a), Apply(call.f, call.b))

\* f is at least tol in size away from its roots, and no root is a grid point
Sharp ==
  /\ call.f.mag >= call.tol
  /\ \A k \in 0..scanN : GridX(call.a, call.b, k) \notin call.f.roots

\* C17 as stated: every root bracketAndBisect returns lies inside the first
\* sign-changing sub-interval of the 50-interval grid of [a, b], for any f
\* (here: any f that is not within the tolerance of zero away from its roots).
C17_Claim ==
  (Done("bracketAndBisect") /\ ret.ok /\ Sharp) => InFirstChange

\* C17, amended: when f(a) and f(b) are non-zero and of the same sign,
\* bracketAndBisect scans the 50 sub-intervals from a upward, selects the
\* first one across which f changes sign and bisects only that one: every
\* midpoint it evaluates and the value it returns lie inside it.  Otherwise
\* it does not scan: it returns an end point where f is zero or bisects
\* [a, b] as a whole, and the value lies in [a, b].
C17_Amended ==
  /\ (Done("bracketAndBisect") /\ ret.ok /\ SameSignEnds) =>
       /\ InFirstChange
       /\ \A k \in 1..scanN :
            (ShowsChange(k) /\ \A j \in 1..(k - 1) : ~ShowsChange(j)) =>
              /\ Len(ret.seen) > k + 2
              /\ ret.seen[k + 2] = GridX(call.a, call.b, k)
              /\ \A i \in (k + 3)..Len(ret.seen) :
                   /\ GridX(call.a, call.b, k - 1) <= ret.seen[i]
                   /\ ret.seen[i] <= GridX(call.a, call.b, k)
  /\ (Done("bracketAndBisect") /\ ret.ok /\ ~SameSignEnds) =>
       /\ call.a <= ret.x /\ ret.x <= call.b
       /\ Len(ret.seen) > 2 => ret.seen[3] = (call.a + call.b) \div 2

\* f is positive at both ends with roots at 1300 and 9000: the scan stops at
\* the sub-interval [1280, 1536] and the value returned lies in it
C17_Witness ==
  /\ Done("bracketAndBisect") /\ ret.ok
  /\ SameSignEnds
  /\ call.f.roots = {1300, 9000} /\ call.f.mag = 1000
  /\ 1280 <= ret.x /\ ret.x <= 1536

Steps ==
  IF SameSignEnds
  THEN Cardinality({i \in 3..Len(ret.seen) :
         ret.seen[i] \notin {GridX(call.a, call.b, k) : k \in 0..scanN}})
  ELSE IF Len(ret.seen) > 2 THEN Len(ret.seen) - 2 ELSE 0

EqA == call.n[3]
EqB == call.n[2]
EqC == FSub(call.n[1], call.t)
EqD == FSub(FMul(EqB, EqB), FMul(FMul(D(4, 0), EqA), EqC))
EqDegenerate == IsZero(EqA) /\ IsZero(EqB)
EqRoots ==
  IF IsZero(EqA) THEN {FDiv(FNeg(EqC), EqB)}
  ELSE {B23Roots(EqA, EqB, EqD).p1, B23Roots(EqA, EqB, EqD).p2}
EqPositive == {r \in EqRoots : FGt(r, Zero)}

InSatT(T) == FGe(T, D(27316, -2)) /\ FLe(T, D(647096, -3))
InSatP(p) == FGe(p, D(611657, -3)) /\ FLe(p, D(22064, 3))

CpReference(referT) ==
  LET tau == FDiv(referT, Kelvin(call.t))
  IN FMul(FNeg(referR), FMul(FMul(tau, tau), call.ev.pot.gTauTau))

\* C25 as stated: the cp returned by region1.Calculate, and by Regions 2
\* and 5, equals -R * tau^2 * g_tautau for all values of the potential's
\* derivatives (Region 1 taken inside its envelope).
C25_Claim ==
  /\ (Done("region1") /\ ret.ok /\ InsideRegion1(call.t, call.p))
       => Close(ret.props.cp, CpReference(D(1386, 0)))
  /\ (Done("region2") /\ ret.ok) => Close(ret.props.cp, CpReference(D(540, 0)))
  /\ (Done("region5") /\ ret.ok /\ finiteAll(ret.props))
       => Close(ret.props.cp, CpReference(D(1000, 0)))

\* the denominator of w^2 with its sign:
\* (g_pi - tau*g_pitau)^2 / (tau^2 * g_tautau) - g_pipi
SignedDenominator ==
  LET tau == FDiv(D(1386, 0), Kelvin(call.t))
      q == call.ev.pot
  IN FSub(FDiv(Sq(FSub(q.gPi, FMul(tau, q.gPiTau))),
               FMul(FMul(tau, tau), q.gTauTau)),
          q.gPiPi)

ClassifiedRegion3 ==
  /\ FGe(Kelvin(call.t), D(647096, -3)) /\ FLe(Kelvin(call.t), D(107315, -2))
  /\ FGe(call.p, D(16529, 3)) /\ FLe(call.p, D(100, 6))
  /\ RegionFromTP(Kelvin(call.t), call.p) = Region3

C29_Claim ==
  /\ (Done("determineRegion") /\ ret.region = Region1 /\ FLe(call.p, D(100, 6)))
       => FLe(call.t, D(62315, -2))
  /\ (Done("Calculate") /\ FLe(call.p, D(100, 6)))
       => ret.err # "Region 1: T exceeds 623.15 K"

\* the last cache method was op
Did(op) == call.op = op

\* the keys Set since the cache was made or cleared
WrittenKeys == {k \in Keys : written[k] # NoValue}

\* C22 as stated: after any sequence of Set calls with pairwise distinct
\* CacheKeys, with capacity not exceeded and no TTL elapsed, Get(k) for each
\* key k returns found = true and exactly the value last Set under k.
C22_Claim ==
  (/\ Did("Get")
   /\ call.key \in WrittenKeys
   /\ distinct
   /\ Cardinality(WrittenKeys) <= maxSize
   /\ now <= shortTTL)
  => (ret.found /\ ret.value = written[call.key])

\* C23 as stated: for a cache created with NewCache(maxSize, ttl),
\* Size() <= maxSize holds after every operation in any sequence of Set,
\* SetWithTTL, Get, Cleanup and Clear calls.
C23_Claim ==
  /\ Cardinality(DOMAIN entries) <= maxSize
  /\ Did("Size") => ret.size <= maxSize

\* C30 as stated: a Set or SetWithTTL on a CacheKey that is already present
\* replaces only that entry; Size() is unchanged and every other key stored
\* before the call is still there after it, also when the cache holds
\* maxSize entries.
C30_Claim ==
  [][(/\ call'.op \in {"Set", "SetWithTTL"}
      /\ written[call'.key] # NoValue
      /\ hashes[call'.key] \in DOMAIN entries)
     => (/\ DOMAIN entries' = DOMAIN entries
         /\ \A h \in DOMAIN entries \ {hashes[call'.key]} :
              entries'[h] = entries[h])]_vars

\* C27 as stated: under any interleaving of concurrent Get, Set and
\* SetWithTTL calls, a Get deletes an entry only if that entry is expired
\* and is the one the Get read (an entry stored by a Set in between is left
\* alone), and a Get that has returned holds none of the cache's locks.
C27_Claim ==
  [][/\ \A g \in Goroutines :
          (/\ gpc[g] = "get_delete"
           /\ gpc'[g] = "get_unlock"
           /\ hashes[local[g].key] \in DOMAIN entries)
          => (/\ Expired(entries[hashes[local[g].key]], now)
              /\ entries[hashes[local[g].key]] = local[g].observed)
     /\ \A g \in Goroutines :
          gpc'[g] = "idle" => (mu'.readers[g] = 0 /\ mu'.writer # g)]_vars

InStop(c) == mpc[c] \in {"stop_lock", "stop_body", "stop_send", "stop_clear", "stop_unlock"}
HoldsMutex(c) == mpc[c] \in {"start_body", "start_unlock", "stop_body", "stop_send",
                             "stop_clear", "stop_unlock"}

\* at most one cleanupLoop can still run Cleanup, and cleanupRunning says
\* whether there is one whenever no caller is inside the mutex
OneLoop ==
  /\ Cardinality(ActiveLoops) <= 1
  /\ cleanupMutex = 0 => (cleanupRunning <=> ActiveLoops # {})

\* a step of StartCleanup that finds cleanupRunning set, or of StopCleanup
\* that finds it clear, goes straight to the unlock; a step of StopCleanup
\* leaves both caches alone; whatever step removes a cache entry removes
\* an expired one
LifecycleStep ==
  /\ \A c \in Callers :
       /\ (mpc[c] = "start_body" /\ mpc'[c] # mpc[c] /\ cleanupRunning)
          => (mpc'[c] = "start_unlock" /\ UNCHANGED <<cleanupRunning, loops,
                                                      entries, tentries>>)
       /\ (mpc[c] = "stop_body" /\ mpc'[c] # mpc[c] /\ ~cleanupRunning)
          => (mpc'[c] = "stop_unlock" /\ UNCHANGED <<cleanupRunning, loops,
                                                     entries, tentries>>)
       /\ (mpc[c] \in {"start_unlock", "stop_unlock"} /\ mpc'[c] # mpc[c])
          => UNCHANGED <<cleanupRunning, loops, entries, tentries>>
       /\ (InStop(c) /\ mpc'[c] # mpc[c]) => UNCHANGED <<entries, tentries>>
  /\ \A h \in DOMAIN entries \ DOMAIN entries' : Expired(entries[h], now)
  /\ \A h \in DOMAIN tentries \ DOMAIN tentries' : Expired(tentries[h], now)

\* C24: for any interleaving of StartCleanup and StopCleanup calls at most
\* one cleanupLoop is active, StartCleanup while running and StopCleanup
\* while stopped do nothing, every StopCleanup call eventually returns with
\* no cleanupLoop left active, and stopping removes no unexpired entry.
C24_Lifecycle ==
  /\ []OneLoop
  /\ [][LifecycleStep]_vars
  /\ \A c \in Callers : InStop(c) ~> (mpc[c] = "idle" /\ ActiveLoops = {})

\* StopCleanup has stopped a running loop and returned, the loop has ended,
\* and an unexpired entry stored meanwhile is still in the properties cache
C24_Witness ==
  /\ \A c \in Callers : mpc[c] = "idle"
  /\ ~cleanupRunning
  /\ \E i \in DOMAIN loops : loops[i] = "exited"
  /\ \E h \in DOMAIN entries : ~Expired(entries[h], now)
====
